---- MODULE Spec2Model ----
(***************************************************************************)
(* State-machine model of the booking lifecycle of the swift-car           *)
(* storefront: the booking-creation handler                                *)
(* (src/app/api/booking/create/route.ts), the payment webhook              *)
(* (src/app/api/paystack/webhook/route.ts), the success page               *)
(* (src/app/booking/success/page.tsx), the handlers that call the payment  *)
(* gateway and the chat-bot service, and the booking wizard                *)
(* (src/unnamed/part_000), running against the hosted relational store     *)
(* (users, cars, bookings, payments, sessions).                            *)
(*                                                                         *)
(* Every await on the database client or on fetch is one atomic step of a  *)
(* handler, so that handlers interleave exactly where the code yields.     *)
(* The database client never throws: a failed call returns                 *)
(* {data: null, error}.                                                    *)
(***************************************************************************)
EXTENDS Integers, Sequences, FiniteSets, TLC

VARIABLES
    users,      \* table users: sequence of rows, the row id is the index
    bookings,   \* table bookings: sequence of rows, the row id is the index
    payments,   \* table payments: sequence of rows
    sessions,   \* table sessions: whatsapp_id -> row, or NoRow
    creates,    \* invocations of POST /api/booking/create, one per slot
    hooks,      \* invocations of POST /api/paystack/webhook, one per slot
    submitted,  \* number of requests received so far
    delivered,  \* number of webhook deliveries received so far
    faults,     \* number of database calls that have failed so far
    resolved,   \* history: <<sessionId, userId>> of every user resolution
    env,        \* process.env: the configured secrets, "" when not configured
    pages,      \* loads of the page /booking/success, one per slot
    apis,       \* invocations of the handlers that call an external service
    wizard      \* the state of the booking wizard

vars ==
    <<users, bookings, payments, sessions, creates, hooks, submitted, delivered,
      faults, resolved, env, pages, apis, wizard>>

tables == <<users, bookings, payments, sessions>>

----------------------------------------------------------------------------
(* Bounds and input domains *)

\* requests received in one behaviour
MaxRequests == 2

\* requests received in one behaviour of SpecIdentity
MaxIdentityRequests == 4

\* requests received in one behaviour of SpecRace
MaxRaceRequests == 2

\* requests received in one behaviour of SpecWebhook
MaxHookRequests == 2

\* database calls that fail in one behaviour
MaxFaults == 1

\* webhook deliveries in one behaviour
MaxDeliveries == 1

\* loads of the success page in one behaviour
MaxLoads == 1

\* requests to the handlers that call an external service, in one behaviour
MaxCalls == 1

\* requests received in one behaviour of SpecLifecycle
MaxLifecycleRequests == 1

\* webhook deliveries in one behaviour of SpecLifecycle
MaxLifecycleDeliveries == 2

\* the dates the wizard is given: the first MaxDay days of January 2024
MaxDay == 7

NULL == "null"

SessionIds == {"S1", "S2"}

Phones == {"P1", "P2"}

\* the random suffix of a generated identifier
RandomSuffixes == {"A", "B"}

Slots == {1, 2}

\* JavaScript truthiness of the request fields (strings, or null)
Truthy(v) == v # "" /\ v # NULL

\* a || b
Or(a, b) == IF Truthy(a) THEN a ELSE b

\* the cars table is managed outside this program and only read
Cars == << [car_id |-> "CAR-001", daily_rate |-> 200] >>

\* sessions are opened by the chat bot; S1 has a row, S2 has none
NoData ==
    [booking_completed |-> FALSE, payment_reference |-> NULL, order_id |-> NULL,
     booking_id |-> 0]

NoRow == [session_state |-> "NOROW", session_data |-> NoData, last_message_at |-> NULL]

InitSessions ==
    [s \in SessionIds |->
        IF s = "S1"
        THEN [session_state |-> "IN_PROGRESS", session_data |-> NoData,
              last_message_at |-> "t0"]
        ELSE NoRow]

----------------------------------------------------------------------------
(* The database client *)

\* indexes of the rows of a table that satisfy .eq(column, value)
Matching(table, column, value) ==
    {i \in 1..Len(table) : table[i][column] = value}

\* .maybeSingle(): the row id when exactly one row matches, else 0 (data: null)
MaybeSingle(table, column, value) ==
    LET m == Matching(table, column, value)
    IN  IF Cardinality(m) = 1 THEN CHOOSE i \in m : TRUE ELSE 0

\* .single(): as maybeSingle, with an error when no row matches
Single(table, column, value) == MaybeSingle(table, column, value)

\* the unique constraint on users.whatsapp_id (error code 23505)
WhatsappTaken(id, except) ==
    \E i \in 1..Len(users) : i # except /\ users[i].whatsapp_id = id

----------------------------------------------------------------------------
(* POST /api/booking/create *)

NoResponse == [status |-> 0, body |-> ""]

NoRequest ==
    [car_id |-> "", pickup_date |-> "", return_date |-> "", full_name |-> "",
     phone_number |-> "", email |-> "", pickup_location |-> "",
     days |-> 0, daily_rate |-> 0, total_amount |-> 0, sessionId |-> NULL]

IdleCreate ==
    [pc |-> "idle", req |-> NoRequest, userId |-> 0, carRowId |-> 0,
     orderId |-> NULL, paymentReference |-> NULL, bookingId |-> 0,
     resp |-> NoResponse, ops |-> << >>, errs |-> << >>, n |-> 0]

\* const whatsappId = sessionId || phone_number
WhatsappId(req) == Or(req.sessionId, req.phone_number)

\* the required-field check without pickup_location
MissingRequiredButLocation(req) ==
    \/ ~Truthy(req.car_id)
    \/ ~Truthy(req.pickup_date)
    \/ ~Truthy(req.return_date)
    \/ ~Truthy(req.full_name)
    \/ ~Truthy(req.phone_number)

\* the required-field check
MissingRequired(req) ==
    \/ ~Truthy(req.car_id)
    \/ ~Truthy(req.pickup_date)
    \/ ~Truthy(req.return_date)
    \/ ~Truthy(req.full_name)
    \/ ~Truthy(req.phone_number)
    \/ ~Truthy(req.pickup_location)

\* a handler moves to pc `to`, having made the database call `op`
Goto(s, to, op) ==
    [creates[s] EXCEPT !.pc = to, !.ops = Append(@, op)]

\* the database call `op` of handler h returned {data: null, error}
Failed(h, op) == [h EXCEPT !.errs = Append(@, op)]

\* return NextResponse.json(body, {status})
Reply(h, status, body) ==
    [h EXCEPT !.pc = "done", !.resp = [status |-> status, body |-> body]]

\* userId = <row>.id, with the history of resolutions kept
Resolve(req, id) ==
    IF Truthy(req.sessionId) THEN resolved \cup {<<req.sessionId, id>>} ELSE resolved

\* new Date().toISOString() in the n-th invocation of a handler
Now(handler, n) == handler \o "-" \o ToString(n)

\* the request arrives: const body = await request.json()
Submit(s, req, max) ==
    /\ submitted < max
    /\ creates[s].pc \in {"idle", "done"}
    /\ creates' = [creates EXCEPT ![s] =
          [IdleCreate EXCEPT !.pc = "start", !.req = req, !.n = submitted + 1]]
    /\ submitted' = submitted + 1
    /\ UNCHANGED <<tables, hooks, delivered, faults, resolved, env, pages, apis, wizard>>

\* the database call of this step fails: {data: null, error}
Fault ==
    /\ faults < MaxFaults
    /\ faults' = faults + 1

\* the field check followed at once by the car lookup, before any user is
\* resolved
ValidateThenCar(s) ==
    /\ creates[s].pc = "start"
    /\ creates' = [creates EXCEPT ![s] =
          IF MissingRequired(@.req)
          THEN Reply(@, 400, "Missing required fields")
          ELSE IF Single(Cars, "car_id", @.req.car_id) = 0
          THEN Reply(Goto(s, "done", "cars.select"), 404, "Car not found")
          ELSE [@ EXCEPT !.pc = "lookupWhatsapp"]]
    /\ UNCHANGED <<tables, hooks, submitted, delivered, faults, resolved, env, pages, apis, wizard>>

Validate(s) ==
    /\ creates[s].pc = "start"
    /\ creates' = [creates EXCEPT ![s] =
          IF MissingRequired(@.req)
          THEN Reply(@, 400, "Missing required fields")
          ELSE [@ EXCEPT !.pc = "lookupWhatsapp"]]
    /\ UNCHANGED <<tables, hooks, submitted, delivered, faults, resolved, env, pages, apis, wizard>>

\* the first lookup keyed by the session id alone, without the fallback to the
\* phone number
LookupBySessionId(s) ==
    /\ creates[s].pc = "lookupWhatsapp"
    /\ LET req == creates[s].req
           id  == MaybeSingle(users, "whatsapp_id", req.sessionId)
       IN  /\ creates' = [creates EXCEPT ![s] =
                 IF id # 0
                 THEN [Goto(s, "patchUser", "users.select") EXCEPT !.userId = id]
                 ELSE Goto(s, "lookupPhone", "users.select")]
           /\ resolved' = IF id # 0 THEN Resolve(req, id) ELSE resolved
    /\ UNCHANGED <<tables, hooks, submitted, delivered, faults, env, pages, apis, wizard>>

LookupByWhatsapp(s) ==
    /\ creates[s].pc = "lookupWhatsapp"
    /\ LET req == creates[s].req
           id  == MaybeSingle(users, "whatsapp_id", WhatsappId(req))
       IN  /\ creates' = [creates EXCEPT ![s] =
                 IF id # 0
                 THEN [Goto(s, "patchUser", "users.select") EXCEPT !.userId = id]
                 ELSE Goto(s, "lookupPhone", "users.select")]
           /\ resolved' = IF id # 0 THEN Resolve(req, id) ELSE resolved
    /\ UNCHANGED <<tables, hooks, submitted, delivered, faults, env, pages, apis, wizard>>

\* update({name, email, phone}).eq('id', userId): undefined fields are not sent
PatchedUser(row, req) ==
    [row EXCEPT !.name  = Or(req.full_name, @),
                !.email = Or(req.email, @),
                !.phone = Or(req.phone_number, @)]

PatchUser(s) ==
    /\ creates[s].pc = "patchUser"
    /\ LET req == creates[s].req
           id  == creates[s].userId
       IN  users' = [users EXCEPT ![id] = PatchedUser(@, req)]
    /\ creates' = [creates EXCEPT ![s] = Goto(s, "lookupCar", "users.update")]
    /\ UNCHANGED <<bookings, payments, sessions, hooks, submitted, delivered, faults, resolved, env, pages, apis, wizard>>

LookupByPhone(s) ==
    /\ creates[s].pc = "lookupPhone"
    /\ LET req == creates[s].req
           id  == MaybeSingle(users, "phone", req.phone_number)
       IN  /\ creates' = [creates EXCEPT ![s] =
                 IF id # 0
                 THEN [Goto(s, "adoptUser", "users.select") EXCEPT !.userId = id]
                 ELSE Goto(s, "insertUser", "users.select")]
           /\ resolved' = IF id # 0 THEN Resolve(req, id) ELSE resolved
    /\ UNCHANGED <<tables, hooks, submitted, delivered, faults, env, pages, apis, wizard>>

\* the adopting update without whatsapp_id
AdoptedUserKeepsId(row, req) ==
    [row EXCEPT !.name  = Or(req.full_name, @),
                !.email = Or(req.email, @)]

\* update({name, email, whatsapp_id}).eq('id', userId); its error is not read
AdoptedUser(row, req) ==
    [row EXCEPT !.name  = Or(req.full_name, @),
                !.email = Or(req.email, @),
                !.whatsapp_id = WhatsappId(req)]

AdoptUser(s) ==
    /\ creates[s].pc = "adoptUser"
    /\ LET req == creates[s].req
           id  == creates[s].userId
       IN  users' = IF WhatsappTaken(WhatsappId(req), id)
                    THEN users
                    ELSE [users EXCEPT ![id] = AdoptedUser(@, req)]
    /\ creates' = [creates EXCEPT ![s] = Goto(s, "lookupCar", "users.update")]
    /\ UNCHANGED <<bookings, payments, sessions, hooks, submitted, delivered, faults, resolved, env, pages, apis, wizard>>

NewUser(req) ==
    [whatsapp_id |-> WhatsappId(req), phone |-> req.phone_number,
     name |-> req.full_name, email |-> Or(req.email, NULL)]

\* insert(...).select('id').single(), and the branch on userError
InsertUser(s) ==
    /\ creates[s].pc = "insertUser"
    /\ LET req == creates[s].req
       IN  \/ \* the row is inserted
              /\ ~WhatsappTaken(WhatsappId(req), 0)
              /\ users' = Append(users, NewUser(req))
              /\ creates' = [creates EXCEPT ![s] =
                    [Goto(s, "lookupCar", "users.insert") EXCEPT !.userId = Len(users) + 1]]
              /\ resolved' = Resolve(req, Len(users) + 1)
              /\ UNCHANGED faults
           \/ \* userError.code === '23505'
              /\ WhatsappTaken(WhatsappId(req), 0)
              /\ creates' = [creates EXCEPT ![s] = Goto(s, "rereadUser", "users.insert")]
              /\ UNCHANGED <<users, faults, resolved>>
           \/ \* any other userError
              /\ Fault
              /\ creates' = [creates EXCEPT ![s] =
                    Reply(Failed(Goto(s, "done", "users.insert"), "users.insert"),
                          500, "Failed to create user")]
              /\ UNCHANGED <<users, resolved>>
    /\ UNCHANGED <<bookings, payments, sessions, hooks, submitted, delivered, env, pages, apis, wizard>>

\* the re-read that answers 500 whatever it finds
RereadUserFails(s) ==
    /\ creates[s].pc = "rereadUser"
    /\ creates' = [creates EXCEPT ![s] =
          Reply(Goto(s, "done", "users.select"), 500, "Failed to create user")]
    /\ UNCHANGED <<tables, hooks, submitted, delivered, faults, resolved, env, pages, apis, wizard>>

\* const { data: existingUser } = ...eq('whatsapp_id', whatsappId).maybeSingle():
\* the error of the re-read is not read, so a failed re-read is a row not found
RereadUser(s) ==
    /\ creates[s].pc = "rereadUser"
    /\ LET req == creates[s].req
           id  == MaybeSingle(users, "whatsapp_id", WhatsappId(req))
           h   == Goto(s, "done", "users.select")
       IN  \/ /\ creates' = [creates EXCEPT ![s] =
                    IF id # 0
                    THEN [Goto(s, "lookupCar", "users.select") EXCEPT !.userId = id]
                    ELSE Reply(h, 500, "Failed to create user")]
              /\ resolved' = IF id # 0 THEN Resolve(req, id) ELSE resolved
              /\ UNCHANGED faults
           \/ /\ Fault
              /\ creates' = [creates EXCEPT ![s] =
                    Reply(Failed(h, "users.select"), 500, "Failed to create user")]
              /\ UNCHANGED resolved
    /\ UNCHANGED <<tables, hooks, submitted, delivered, env, pages, apis, wizard>>

\* the car lookup without the check of carData
LookupCarUnchecked(s) ==
    /\ creates[s].pc = "lookupCar"
    /\ creates' = [creates EXCEPT ![s] =
          [Goto(s, "insertBooking", "cars.select") EXCEPT
              !.carRowId = Single(Cars, "car_id", creates[s].req.car_id)]]
    /\ UNCHANGED <<tables, hooks, submitted, delivered, faults, resolved, env, pages, apis, wizard>>

LookupCar(s) ==
    /\ creates[s].pc = "lookupCar"
    /\ LET id == Single(Cars, "car_id", creates[s].req.car_id)
       IN  creates' = [creates EXCEPT ![s] =
              IF id = 0
              THEN Reply(Goto(s, "done", "cars.select"), 404, "Car not found")
              ELSE [Goto(s, "insertBooking", "cars.select") EXCEPT !.carRowId = id]]
    /\ UNCHANGED <<tables, hooks, submitted, delivered, faults, resolved, env, pages, apis, wizard>>

\* `ORD-${date}-${random}` and `PAY-${Date.now()}-${random}`
OrderId(r) == "ORD-" \o r

PaymentReference(r) == "PAY-" \o r

\* the booking inserted with one day's rate as deposit and the rest as balance
NewBookingWithBalance(h, orderId, paymentReference) ==
    [order_id |-> orderId, user_id |-> h.userId, car_id |-> h.carRowId,
     pickup_date |-> h.req.pickup_date, return_date |-> h.req.return_date,
     pickup_location |-> h.req.pickup_location,
     days |-> h.req.days, daily_rate |-> h.req.daily_rate,
     total_amount |-> h.req.total_amount,
     deposit_amount |-> h.req.daily_rate,
     balance_amount |-> h.req.total_amount - h.req.daily_rate,
     status |-> "paid", payment_status |-> "paid",
     payment_reference |-> paymentReference]

\* the booking inserted as pending, left for the webhook to mark paid
NewBookingPending(h, orderId, paymentReference) ==
    [order_id |-> orderId, user_id |-> h.userId, car_id |-> h.carRowId,
     pickup_date |-> h.req.pickup_date, return_date |-> h.req.return_date,
     pickup_location |-> h.req.pickup_location,
     days |-> h.req.days, daily_rate |-> h.req.daily_rate,
     total_amount |-> h.req.total_amount,
     deposit_amount |-> h.req.total_amount, balance_amount |-> 0,
     status |-> "pending", payment_status |-> "pending",
     payment_reference |-> paymentReference]

NewBooking(h, orderId, paymentReference) ==
    [order_id |-> orderId, user_id |-> h.userId, car_id |-> h.carRowId,
     pickup_date |-> h.req.pickup_date, return_date |-> h.req.return_date,
     pickup_location |-> h.req.pickup_location,
     days |-> h.req.days, daily_rate |-> h.req.daily_rate,
     total_amount |-> h.req.total_amount,
     deposit_amount |-> h.req.total_amount, balance_amount |-> 0,
     status |-> "paid", payment_status |-> "paid",
     payment_reference |-> paymentReference]

InsertBooking(s, suffixes) ==
    /\ creates[s].pc = "insertBooking"
    /\ \E r1 \in suffixes, r2 \in suffixes :
          LET h == [Goto(s, "insertPayment", "bookings.insert") EXCEPT
                       !.orderId = OrderId(r1),
                       !.paymentReference = PaymentReference(r2)]
          IN  \/ /\ bookings' = Append(bookings, NewBooking(h, h.orderId, h.paymentReference))
                 /\ creates' = [creates EXCEPT ![s] = [h EXCEPT !.bookingId = Len(bookings) + 1]]
                 /\ UNCHANGED faults
              \/ \* bookingError
                 /\ Fault
                 /\ creates' = [creates EXCEPT ![s] =
                       Reply(Failed(h, "bookings.insert"), 500, "Failed to create booking")]
                 /\ UNCHANGED bookings
    /\ UNCHANGED <<users, payments, sessions, hooks, submitted, delivered, resolved, env, pages, apis, wizard>>

\* the payment insert with its error treated as fatal
InsertPaymentFatal(s) ==
    /\ creates[s].pc = "insertPayment"
    /\ LET h == Goto(s, "updateSession", "payments.insert")
       IN  \/ /\ payments' = Append(payments,
                    [order_id |-> h.orderId, payment_reference |-> h.paymentReference,
                     amount |-> h.req.total_amount, currency |-> "GHS",
                     status |-> "success", provider |-> "manual",
                     provider_reference |-> h.paymentReference,
                     paid_at |-> Now("create", h.n),
                     sessionId |-> Or(h.req.sessionId, NULL)])
              /\ creates' = [creates EXCEPT ![s] =
                    IF Truthy(h.req.sessionId) THEN h
                    ELSE Reply(h, 200, "success")]
              /\ UNCHANGED faults
           \/ /\ Fault
              /\ creates' = [creates EXCEPT ![s] =
                    Reply(Failed(h, "payments.insert"), 500, "Failed to create payment")]
              /\ UNCHANGED payments
    /\ UNCHANGED <<users, bookings, sessions, hooks, submitted, delivered, resolved, env, pages, apis, wizard>>

\* the payment inserted with one day's rate as its amount
NewPaymentDailyRate(h) ==
    [order_id |-> h.orderId, payment_reference |-> h.paymentReference,
     amount |-> h.req.daily_rate, currency |-> "GHS", status |-> "success",
     provider |-> "manual", provider_reference |-> h.paymentReference,
     paid_at |-> Now("create", h.n), sessionId |-> Or(h.req.sessionId, NULL)]

NewPayment(h) ==
    [order_id |-> h.orderId, payment_reference |-> h.paymentReference,
     amount |-> h.req.total_amount, currency |-> "GHS", status |-> "success",
     provider |-> "manual", provider_reference |-> h.paymentReference,
     paid_at |-> Now("create", h.n), sessionId |-> Or(h.req.sessionId, NULL)]

\* the handler's last statement: return NextResponse.json({success: true, ...})
Success(h) == Reply(h, 200, "success")

InsertPayment(s) ==
    /\ creates[s].pc = "insertPayment"
    /\ LET h == Goto(s, "updateSession", "payments.insert")
           e == Failed(h, "payments.insert")
       IN  \/ /\ payments' = Append(payments, NewPayment(h))
              /\ creates' = [creates EXCEPT ![s] =
                    IF Truthy(h.req.sessionId) THEN h ELSE Success(h)]
              /\ UNCHANGED faults
           \/ \* paymentError is logged only
              /\ Fault
              /\ creates' = [creates EXCEPT ![s] =
                    IF Truthy(h.req.sessionId) THEN e ELSE Success(e)]
              /\ UNCHANGED payments
    /\ UNCHANGED <<users, bookings, sessions, hooks, submitted, delivered, resolved, env, pages, apis, wizard>>

\* the session update without session_state
BookedSessionKeepsState(h) ==
    [session_state |-> "IN_PROGRESS",
     session_data |-> [booking_completed |-> TRUE,
                       payment_reference |-> h.paymentReference,
                       order_id |-> h.orderId,
                       booking_id |-> h.bookingId],
     last_message_at |-> Now("create", h.n)]

BookedSession(h) ==
    [session_state |-> "BOOKED",
     session_data |-> [booking_completed |-> TRUE,
                       payment_reference |-> h.paymentReference,
                       order_id |-> h.orderId,
                       booking_id |-> h.bookingId],
     last_message_at |-> Now("create", h.n)]

\* update(...).eq('whatsapp_id', sessionId): no row, no change; its error is not read
UpdateSession(s) ==
    /\ creates[s].pc = "updateSession"
    /\ LET h == Goto(s, "done", "sessions.update")
           k == h.req.sessionId
       IN  \/ /\ sessions' = IF sessions[k] = NoRow THEN sessions
                             ELSE [sessions EXCEPT ![k] = BookedSession(h)]
              /\ creates' = [creates EXCEPT ![s] = Success(h)]
              /\ UNCHANGED faults
           \/ /\ Fault
              /\ creates' = [creates EXCEPT ![s] = Success(Failed(h, "sessions.update"))]
              /\ UNCHANGED sessions
    /\ UNCHANGED <<users, bookings, payments, hooks, submitted, delivered, resolved, env, pages, apis, wizard>>

\* random suffixes that never collide: the number of the request
FreshSuffix(s) == {ToString(creates[s].n)}

\* the steps of user resolution
ResolveStep(s) ==
    \/ Validate(s)
    \/ LookupByWhatsapp(s)
    \/ PatchUser(s)
    \/ LookupByPhone(s)
    \/ AdoptUser(s)
    \/ InsertUser(s)

\* the steps from car resolution to the response
BookStep(s, suffixes) ==
    \/ LookupCar(s)
    \/ InsertBooking(s, suffixes)
    \/ InsertPayment(s)
    \/ UpdateSession(s)

----------------------------------------------------------------------------
(* Requests *)

BaseRequest ==
    [car_id |-> "CAR-001", pickup_date |-> "2024-01-01", return_date |-> "2024-01-03",
     full_name |-> "Ama", phone_number |-> "P1", email |-> "ama@x.gh",
     pickup_location |-> "Airport",
     days |-> 2, daily_rate |-> 200, total_amount |-> 400, sessionId |-> "S1"]

\* one of the six required fields is absent, or none is
ValidationRequests ==
    {BaseRequest,
     [BaseRequest EXCEPT !.car_id = ""], [BaseRequest EXCEPT !.pickup_date = ""],
     [BaseRequest EXCEPT !.return_date = ""], [BaseRequest EXCEPT !.full_name = ""],
     [BaseRequest EXCEPT !.phone_number = ""], [BaseRequest EXCEPT !.pickup_location = ""],
     [BaseRequest EXCEPT !.phone_number = "", !.sessionId = NULL]}

\* who books: with or without a session id, from one of two phones
IdentityRequests ==
    {[BaseRequest EXCEPT !.sessionId = k, !.phone_number = t] :
        k \in SessionIds \cup {NULL}, t \in Phones}

\* the contact fields that a later request patches
ContactRequests ==
    {[BaseRequest EXCEPT !.full_name = "Kofi", !.email = e] : e \in {"", "kofi@x.gh"}}
        \cup {[BaseRequest EXCEPT !.email = ""]}

\* what is booked: the client-computed pricing, and a car that is not in the catalog
PricingRequests ==
    {[BaseRequest EXCEPT !.days = d, !.total_amount = a] : d \in {1, 2}, a \in {200, 400}}
        \cup {[BaseRequest EXCEPT !.car_id = "CAR-999"]}

\* the other callers: another session, no session, another phone
CallerRequests ==
    {[BaseRequest EXCEPT !.sessionId = "S2"], [BaseRequest EXCEPT !.sessionId = NULL],
     [BaseRequest EXCEPT !.phone_number = "P2"]}

\* two requests of one chat session, from the same or from different phones
RaceRequests ==
    {[BaseRequest EXCEPT !.phone_number = t] : t \in Phones}

Requests ==
    ValidationRequests \cup CallerRequests \cup ContactRequests \cup PricingRequests

----------------------------------------------------------------------------
(* POST /api/paystack/webhook *)

\* the raw request body, as the text it is: not JSON at all, the JSON value
\* null, or a JSON object with (or without) event, data, data.reference and a
\* session id in data.metadata.sessionId or in data.metadata.custom_fields
NoBody ==
    [kind |-> "text", event |-> "", hasData |-> FALSE, reference |-> NULL,
     sessionIn |-> "none", sessionId |-> NULL]

\* the x-paystack-signature header; request.headers.get gives null without one
NoSignature == [given |-> FALSE, hex |-> << >>]

\* crypto.createHmac('sha512', key).update(body).digest('hex'), as an ideal
\* MAC: digests are equal only for the same key and the same body
Hmac(key, body) == <<"sha512", key, body>>

\* process.env with every secret set
ConfiguredEnv ==
    [PAYSTACK_SECRET_KEY |-> "sk_live", TELEGRAM_BOT_TOKEN |-> "bot-token",
     TELEGRAM_CHAT_ID |-> "chat-1"]

\* process.env.PAYSTACK_SECRET_KEY || ''
PAYSTACK_SECRET_KEY == Or(env.PAYSTACK_SECRET_KEY, "")

IdleHook ==
    [pc |-> "idle", body |-> NoBody, signature |-> NoSignature,
     reference |-> NULL, sessionId |-> NULL, orderId |-> NULL,
     resp |-> NoResponse, ops |-> << >>, errs |-> << >>, n |-> 0]

HookGoto(s, to, op) ==
    [hooks[s] EXCEPT !.pc = to, !.ops = Append(@, op)]

Received(k) == Reply(k, 200, "received")

\* metadata?.sessionId || metadata?.custom_fields?.find(...)?.value
SessionIdOf(body) ==
    IF body.sessionIn \in {"metadata", "custom_fields"} THEN body.sessionId ELSE NULL

\* the gateway, or anyone else, posts a body with or without a signature header
DeliverUpTo(s, body, signature, max) ==
    /\ delivered < max
    /\ hooks[s].pc \in {"idle", "done"}
    /\ hooks' = [hooks EXCEPT ![s] =
          [IdleHook EXCEPT !.pc = "start", !.body = body, !.signature = signature,
                           !.n = delivered + 1]]
    /\ delivered' = delivered + 1
    /\ UNCHANGED <<tables, creates, submitted, faults, resolved, env, pages, apis, wizard>>

Deliver(s, body, signature) == DeliverUpTo(s, body, signature, MaxDeliveries)

\* a header check that lets a request without the header through
SignatureNeverMissing(k) == FALSE

\* !signature
SignatureMissing(k) == ~k.signature.given

\* a comparison of digests that does not depend on the body
SignatureMismatchIgnoresBody(k) ==
    k.signature.hex[2] # PAYSTACK_SECRET_KEY

\* hash !== signature
SignatureMismatch(k) == Hmac(PAYSTACK_SECRET_KEY, k.body) # k.signature.hex

\* JSON.parse(body), event.event and the destructuring of event.data: which of
\* them throws, into the handler's catch
Throws(body) ==
    \/ body.kind = "text"
    \/ body.kind = "null"
    \/ body.event = "charge.success" /\ ~body.hasData

\* from request.text() to the first database call
Authenticate(s) ==
    /\ hooks[s].pc = "start"
    /\ LET k == hooks[s]
       IN  hooks' = [hooks EXCEPT ![s] =
              IF SignatureMissing(k) THEN Reply(k, 400, "No signature provided")
              ELSE IF SignatureMismatch(k) THEN Reply(k, 401, "Invalid signature")
              ELSE IF Throws(k.body) THEN Reply(k, 500, "Internal server error")
              ELSE IF k.body.event # "charge.success" THEN Received(k)
              ELSE [k EXCEPT !.pc = "findPayment",
                             !.reference = k.body.reference,
                             !.sessionId = SessionIdOf(k.body)]]
    /\ UNCHANGED <<tables, creates, submitted, delivered, faults, resolved, env, pages, apis, wizard>>

\* the payment lookup without the check of paymentError and payment
FindPaymentUnchecked(s) ==
    /\ hooks[s].pc = "findPayment"
    /\ LET k  == hooks[s]
           id == Single(payments, "payment_reference", k.reference)
       IN  hooks' = [hooks EXCEPT ![s] =
              [HookGoto(s, "markPayment", "payments.select") EXCEPT
                  !.orderId = IF id = 0 THEN NULL ELSE payments[id].order_id]]
    /\ UNCHANGED <<tables, creates, submitted, delivered, faults, resolved, env, pages, apis, wizard>>

\* select('order_id').eq('payment_reference', reference).single()
FindPayment(s) ==
    /\ hooks[s].pc = "findPayment"
    /\ LET k  == hooks[s]
           id == Single(payments, "payment_reference", k.reference)
       IN  \/ /\ hooks' = [hooks EXCEPT ![s] =
                    IF id = 0
                    THEN Received(HookGoto(s, "done", "payments.select"))
                    ELSE [HookGoto(s, "markPayment", "payments.select") EXCEPT
                             !.orderId = payments[id].order_id]]
              /\ UNCHANGED faults
           \/ \* paymentError
              /\ Fault
              /\ hooks' = [hooks EXCEPT ![s] =
                    Received(Failed(HookGoto(s, "done", "payments.select"),
                                    "payments.select"))]
    /\ UNCHANGED <<tables, creates, submitted, delivered, resolved, env, pages, apis, wizard>>

\* the payment update with its error treated as fatal
MarkPaymentPaidFatal(s) ==
    /\ hooks[s].pc = "markPayment"
    /\ LET k == hooks[s]
       IN  \/ /\ payments' = [i \in 1..Len(payments) |->
                    IF payments[i].payment_reference = k.reference
                    THEN [payments[i] EXCEPT !.status = "success",
                                             !.paid_at = Now("hook", k.n)]
                    ELSE payments[i]]
              /\ hooks' = [hooks EXCEPT ![s] =
                    HookGoto(s, "markBooking", "payments.update")]
              /\ UNCHANGED faults
           \/ /\ Fault
              /\ hooks' = [hooks EXCEPT ![s] =
                    Reply(Failed(HookGoto(s, "done", "payments.update"), "payments.update"),
                          500, "Internal server error")]
              /\ UNCHANGED payments
    /\ UNCHANGED <<users, bookings, sessions, creates, submitted, delivered, resolved, env, pages, apis, wizard>>

\* the payment update that keeps a paid_at already set
PaidPaymentKeepsPaidAt(row, k) ==
    [row EXCEPT !.status = "success",
                !.paid_at = IF row.paid_at # NULL THEN @ ELSE Now("hook", k.n)]

PaidPayment(row, k) ==
    [row EXCEPT !.status = "success", !.paid_at = Now("hook", k.n)]

\* update({status, paid_at}).eq('payment_reference', reference)
MarkPaymentPaid(s) ==
    /\ hooks[s].pc = "markPayment"
    /\ LET k == hooks[s]
       IN  \/ /\ payments' = [i \in 1..Len(payments) |->
                    IF payments[i].payment_reference = k.reference
                    THEN PaidPayment(payments[i], k) ELSE payments[i]]
              /\ hooks' = [hooks EXCEPT ![s] =
                    HookGoto(s, "markBooking", "payments.update")]
              /\ UNCHANGED faults
           \/ \* updatePaymentError is logged only
              /\ Fault
              /\ hooks' = [hooks EXCEPT ![s] =
                    Failed(HookGoto(s, "markBooking", "payments.update"),
                           "payments.update")]
              /\ UNCHANGED payments
    /\ UNCHANGED <<users, bookings, sessions, creates, submitted, delivered, resolved, env, pages, apis, wizard>>

PaidBooking(row) ==
    [row EXCEPT !.status = "paid", !.payment_status = "paid"]

\* update({status, payment_status}).eq('order_id', payment.order_id)
MarkBookingPaid(s) ==
    /\ hooks[s].pc = "markBooking"
    /\ LET k == hooks[s]
           h == IF Truthy(k.sessionId)
                THEN HookGoto(s, "patchSession", "bookings.update")
                ELSE Received(HookGoto(s, "done", "bookings.update"))
       IN  \/ /\ bookings' = [i \in 1..Len(bookings) |->
                    IF bookings[i].order_id = k.orderId
                    THEN PaidBooking(bookings[i]) ELSE bookings[i]]
              /\ hooks' = [hooks EXCEPT ![s] = h]
              /\ UNCHANGED faults
           \/ \* updateBookingError is logged only
              /\ Fault
              /\ hooks' = [hooks EXCEPT ![s] = Failed(h, "bookings.update")]
              /\ UNCHANGED bookings
    /\ UNCHANGED <<users, payments, sessions, creates, submitted, delivered, resolved, env, pages, apis, wizard>>

\* the session update of the webhook with a session_state of its own
CompletedSessionWithState(row, k) ==
    [row EXCEPT !.session_state = "PAID",
                !.session_data = [booking_completed |-> TRUE,
                                  payment_reference |-> k.reference,
                                  order_id |-> k.orderId,
                                  booking_id |-> 0],
                !.last_message_at = Now("hook", k.n)]

\* the webhook's session write as a merge into the stored session_data
CompletedSessionMerged(row, k) ==
    [row EXCEPT !.session_data = [@ EXCEPT !.booking_completed = TRUE,
                                           !.payment_reference = k.reference,
                                           !.order_id = k.orderId],
                !.last_message_at = Now("hook", k.n)]

CompletedSession(row, k) ==
    [row EXCEPT !.session_data = [booking_completed |-> TRUE,
                                  payment_reference |-> k.reference,
                                  order_id |-> k.orderId,
                                  booking_id |-> 0],
                !.last_message_at = Now("hook", k.n)]

\* update({session_data, last_message_at}).eq('whatsapp_id', sessionId)
PatchSession(s) ==
    /\ hooks[s].pc = "patchSession"
    /\ LET k == hooks[s]
       IN  \/ /\ sessions' = IF sessions[k.sessionId] = NoRow THEN sessions
                             ELSE [sessions EXCEPT ![k.sessionId] = CompletedSession(@, k)]
              /\ hooks' = [hooks EXCEPT ![s] =
                    Received(HookGoto(s, "done", "sessions.update"))]
              /\ UNCHANGED faults
           \/ \* sessionError is logged only
              /\ Fault
              /\ hooks' = [hooks EXCEPT ![s] =
                    Received(Failed(HookGoto(s, "done", "sessions.update"),
                                    "sessions.update"))]
              /\ UNCHANGED sessions
    /\ UNCHANGED <<users, bookings, payments, creates, submitted, delivered, resolved, env, pages, apis, wizard>>

HookStep(s) ==
    \/ Authenticate(s)
    \/ FindPayment(s)
    \/ MarkPaymentPaid(s)
    \/ MarkBookingPaid(s)
    \/ PatchSession(s)

----------------------------------------------------------------------------
(* The page /booking/success: the effect fetchBookingAndSendTelegram *)

IdlePage ==
    [pc |-> "idle", bookingId |-> 0, sessionId |-> NULL, bookingData |-> 0,
     orderId |-> NULL, loading |-> TRUE, error |-> NULL, telegramSent |-> FALSE,
     ops |-> << >>, n |-> 0]

PageGoto(s, to, op) ==
    [pages[s] EXCEPT !.pc = to, !.ops = Append(@, op)]

\* catch (err) { setError(err.message) } finally { setLoading(false) }
PageError(p, message) ==
    [p EXCEPT !.pc = "done", !.error = message, !.loading = FALSE]

\* the page is opened with ?bookingId=..., localStorage holding a session id or
\* none; bookingId 0 is the absent parameter
LoadPage(s, bookingId, sessionId) ==
    /\ pages[s].n < MaxLoads
    /\ pages[s].pc \in {"idle", "done"}
    /\ LET p == [IdlePage EXCEPT !.bookingId = bookingId, !.sessionId = sessionId,
                                 !.n = pages[s].n + 1]
       IN  pages' = [pages EXCEPT ![s] =
              IF bookingId = 0
              THEN PageError(p, "No booking ID found")
              ELSE [p EXCEPT !.pc = "fetchBooking"]]
    /\ UNCHANGED <<tables, creates, hooks, submitted, delivered, faults, resolved, env, apis, wizard>>

\* .single() with the error and the missing row not leading to the throw
FetchBookingUnchecked(s) ==
    /\ pages[s].pc = "fetchBooking"
    /\ LET p  == PageGoto(s, "updateSession", "bookings.select")
           id == p.bookingId
       IN  \/ /\ pages' = [pages EXCEPT ![s] =
                    IF id \notin 1..Len(bookings)
                    THEN [p EXCEPT !.pc = IF Truthy(p.sessionId) THEN "updateSession"
                                          ELSE "sendTelegram"]
                    ELSE [p EXCEPT !.bookingData = id,
                                   !.orderId = bookings[id].order_id,
                                   !.pc = IF Truthy(p.sessionId) THEN "updateSession"
                                          ELSE "sendTelegram"]]
              /\ UNCHANGED faults
           \/ /\ Fault
              /\ pages' = [pages EXCEPT ![s] =
                    [p EXCEPT !.pc = IF Truthy(p.sessionId) THEN "updateSession"
                                     ELSE "sendTelegram"]]
    /\ UNCHANGED <<tables, creates, hooks, submitted, delivered, resolved, env, apis, wizard>>

\* from('bookings').select(...).eq('id', bookingId).single()
FetchBooking(s) ==
    /\ pages[s].pc = "fetchBooking"
    /\ LET p  == PageGoto(s, "updateSession", "bookings.select")
           id == p.bookingId
       IN  \/ /\ pages' = [pages EXCEPT ![s] =
                    IF id \notin 1..Len(bookings)
                    THEN PageError(p, "Booking not found")
                    ELSE [p EXCEPT !.bookingData = id,
                                   !.orderId = bookings[id].order_id,
                                   !.pc = IF Truthy(p.sessionId) THEN "updateSession"
                                          ELSE "sendTelegram"]]
              /\ UNCHANGED faults
           \/ \* bookingError
              /\ Fault
              /\ pages' = [pages EXCEPT ![s] = PageError(p, "Booking not found")]
    /\ UNCHANGED <<tables, creates, hooks, submitted, delivered, resolved, env, apis, wizard>>

PageSession(p) ==
    [session_state |-> "BOOKED",
     session_data |-> [booking_completed |-> TRUE,
                       payment_reference |-> NULL,
                       order_id |-> p.orderId,
                       booking_id |-> p.bookingData],
     last_message_at |-> Now("page", p.n)]

\* update({session_state, session_data, last_message_at}).eq('whatsapp_id',
\* sessionId): the result of the call is not read
PageUpdateSession(s) ==
    /\ pages[s].pc = "updateSession"
    /\ LET p == PageGoto(s, "sendTelegram", "sessions.update")
           k == p.sessionId
       IN  /\ \/ /\ sessions' = IF sessions[k] = NoRow THEN sessions
                                ELSE [sessions EXCEPT ![k] = PageSession(p)]
                 /\ UNCHANGED faults
              \/ /\ Fault
                 /\ UNCHANGED sessions
           /\ pages' = [pages EXCEPT ![s] = p]
    /\ UNCHANGED <<users, bookings, payments, creates, hooks, submitted, delivered, resolved, env, apis, wizard>>

\* what fetch('/api/telegram/send') and telegramResponse.json() can do
TelegramOutcomes == {"ok", "notOk", "throws"}

\* the notification is sent and the effect ends
PageSendTelegram(s, outcome) ==
    /\ pages[s].pc = "sendTelegram"
    /\ LET p == PageGoto(s, "done", "telegram.send")
       IN  pages' = [pages EXCEPT ![s] =
              IF outcome = "throws" THEN PageError(p, "Failed to fetch")
              ELSE [p EXCEPT !.telegramSent = (outcome = "ok"), !.loading = FALSE]]
    /\ UNCHANGED <<tables, creates, hooks, submitted, delivered, faults, resolved, env, apis, wizard>>

\* what the component returns: the spinner while loading, then the error card
\* when an error is set, then the receipt when a booking is held, else nothing
Rendered(p) ==
    IF p.loading THEN "spinner"
    ELSE IF p.error # NULL THEN "error"
    ELSE IF p.bookingData # 0 THEN "receipt"
    ELSE "nothing"

PageStep(s) ==
    \/ FetchBooking(s)
    \/ PageUpdateSession(s)
    \/ \E outcome \in TelegramOutcomes : PageSendTelegram(s, outcome)

----------------------------------------------------------------------------
(* The handlers that call an external service: payment initiation            *)
(* (src/app/api/booking/create/route.ts, second handler), payment            *)
(* verification and the notification sender.  Amounts in major units are     *)
(* counted in thousandths, amounts in minor units are integers.              *)

\* the data object of an answer (data.data of the gateway, data.result of the
\* chat-bot service), fields that are absent being null
NoAnswerData ==
    [authorization_url |-> NULL, access_code |-> NULL, reference |-> NULL,
     status |-> NULL, amount |-> 0, message_id |-> 0]

\* the answer to a fetch: no answer at all ("network": fetch rejects), or a
\* status with a body that is not JSON ("text") or is JSON, with or without a
\* message (data.message, data.description) and a data object
NoAnswer ==
    [kind |-> "network", status |-> 0, message |-> NULL, hasData |-> FALSE,
     data |-> NoAnswerData]

\* response.ok
Ok(answer) == answer.status >= 200 /\ answer.status <= 299

NoApiRequest ==
    [email |-> "", amount |-> 0, metadata |-> NULL, reference |-> NULL, message |-> ""]

\* the outbound request of a handler; url "" when none was made
NoCall ==
    [url |-> "", authorization |-> "", email |-> "", amount |-> 0, currency |-> "",
     metadata |-> NULL, chat_id |-> "", text |-> ""]

NoApiResponse == [status |-> 0, error |-> NULL, data |-> NoAnswerData]

IdleApi ==
    [handler |-> "none", pc |-> "idle", req |-> NoApiRequest, out |-> NoCall,
     answer |-> NoAnswer, resp |-> NoApiResponse, n |-> 0]

\* return NextResponse.json({error}, {status})
ApiError(h, status, error) ==
    [h EXCEPT !.pc = "done", !.resp = [NoApiResponse EXCEPT !.status = status, !.error = error]]

\* return NextResponse.json(data)
ApiData(h, data) ==
    [h EXCEPT !.pc = "done", !.resp = [NoApiResponse EXCEPT !.status = 200, !.data = data]]

\* a request arrives at one of the three handlers
Call(s, handler, req) ==
    /\ apis[s].n < MaxCalls
    /\ apis[s].pc \in {"idle", "done"}
    /\ apis' = [apis EXCEPT ![s] =
          [IdleApi EXCEPT !.handler = handler, !.pc = "start", !.req = req,
                          !.n = apis[s].n + 1]]
    /\ UNCHANGED <<tables, creates, hooks, submitted, delivered, faults, resolved, env, pages, wizard>>

\* Math.round(amount * 100)
MinorUnits(amount) == (amount + 5) \div 10

\* data.data.amount / 100
MajorUnits(amount) == amount * 10

\* POST (paystack initialize), up to the fetch
Initialize(s) ==
    /\ apis[s].handler = "initialize"
    /\ apis[s].pc = "start"
    /\ LET h == apis[s]
       IN  apis' = [apis EXCEPT ![s] =
              IF ~Truthy(h.req.email) \/ h.req.amount = 0
              THEN ApiError(h, 400, "Email and amount are required")
              ELSE [h EXCEPT !.pc = "fetch",
                             !.out = [NoCall EXCEPT
                                 !.url = "https://api.paystack.co/transaction/initialize",
                                 !.authorization = "Bearer " \o PAYSTACK_SECRET_KEY,
                                 !.email = h.req.email,
                                 !.amount = MinorUnits(h.req.amount),
                                 !.currency = "GHS",
                                 !.metadata = h.req.metadata]]]
    /\ UNCHANGED <<tables, creates, hooks, submitted, delivered, faults, resolved, env, pages, wizard>>

\* an answer that makes the handler throw into its catch: fetch rejects,
\* response.json() rejects, or data.data (data.result) is read but absent
ApiThrows(answer) ==
    \/ answer.kind \in {"network", "text"}
    \/ Ok(answer) /\ ~answer.hasData

\* POST (paystack initialize), from the answer of the gateway
InitializeAnswer(s, answer) ==
    /\ apis[s].handler = "initialize"
    /\ apis[s].pc = "fetch"
    /\ LET h == [apis[s] EXCEPT !.answer = answer]
       IN  apis' = [apis EXCEPT ![s] =
              IF ApiThrows(answer) THEN ApiError(h, 500, "Internal server error")
              ELSE IF ~Ok(answer)
              THEN ApiError(h, answer.status, Or(answer.message, "Failed to initialize payment"))
              ELSE ApiData(h, [NoAnswerData EXCEPT
                                  !.authorization_url = answer.data.authorization_url,
                                  !.access_code = answer.data.access_code,
                                  !.reference = answer.data.reference])]
    /\ UNCHANGED <<tables, creates, hooks, submitted, delivered, faults, resolved, env, pages, wizard>>

\* GET /api/paystack/verify, up to the fetch
Verify(s) ==
    /\ apis[s].handler = "verify"
    /\ apis[s].pc = "start"
    /\ LET h == apis[s]
       IN  apis' = [apis EXCEPT ![s] =
              IF ~Truthy(h.req.reference)
              THEN ApiError(h, 400, "Reference is required")
              ELSE [h EXCEPT !.pc = "fetch",
                             !.out = [NoCall EXCEPT
                                 !.url = "https://api.paystack.co/transaction/verify/"
                                             \o h.req.reference,
                                 !.authorization = "Bearer " \o PAYSTACK_SECRET_KEY]]]
    /\ UNCHANGED <<tables, creates, hooks, submitted, delivered, faults, resolved, env, pages, wizard>>

\* the verification that marks the Payment and its Booking paid on 'success'
VerifyAnswerMarksPaid(s, answer) ==
    /\ apis[s].handler = "verify"
    /\ apis[s].pc = "fetch"
    /\ LET h == [apis[s] EXCEPT !.answer = answer]
           verified == ~ApiThrows(answer) /\ Ok(answer) /\ answer.data.status = "success"
       IN  /\ apis' = [apis EXCEPT ![s] =
                 IF ApiThrows(answer) THEN ApiError(h, 500, "Internal server error")
                 ELSE IF ~Ok(answer)
                 THEN ApiError(h, answer.status, Or(answer.message, "Failed to verify payment"))
                 ELSE ApiData(h, [NoAnswerData EXCEPT
                                     !.status = answer.data.status,
                                     !.reference = answer.data.reference,
                                     !.amount = answer.data.amount * 10])]
           /\ payments' = [i \in 1..Len(payments) |->
                 IF verified /\ payments[i].payment_reference = answer.data.reference
                 THEN [payments[i] EXCEPT !.status = "success", !.paid_at = "verify"]
                 ELSE payments[i]]
    /\ UNCHANGED <<users, bookings, sessions, creates, hooks, submitted, delivered, faults, resolved, env, pages, wizard>>

\* GET /api/paystack/verify, from the answer of the gateway
VerifyAnswer(s, answer) ==
    /\ apis[s].handler = "verify"
    /\ apis[s].pc = "fetch"
    /\ LET h == [apis[s] EXCEPT !.answer = answer]
       IN  apis' = [apis EXCEPT ![s] =
              IF ApiThrows(answer) THEN ApiError(h, 500, "Internal server error")
              ELSE IF ~Ok(answer)
              THEN ApiError(h, answer.status, Or(answer.message, "Failed to verify payment"))
              ELSE ApiData(h, [NoAnswerData EXCEPT
                                  !.status = answer.data.status,
                                  !.reference = answer.data.reference,
                                  !.amount = MajorUnits(answer.data.amount)])]
    /\ UNCHANGED <<tables, creates, hooks, submitted, delivered, faults, resolved, env, pages, wizard>>

\* POST /api/telegram/send, up to the fetch
Send(s) ==
    /\ apis[s].handler = "send"
    /\ apis[s].pc = "start"
    /\ LET h == apis[s]
       IN  apis' = [apis EXCEPT ![s] =
              IF ~Truthy(h.req.message)
              THEN ApiError(h, 400, "Message is required")
              ELSE IF ~Truthy(env.TELEGRAM_BOT_TOKEN) \/ ~Truthy(env.TELEGRAM_CHAT_ID)
              THEN ApiError(h, 500, "Telegram not configured")
              ELSE [h EXCEPT !.pc = "fetch",
                             !.out = [NoCall EXCEPT
                                 !.url = "https://api.telegram.org/bot"
                                             \o env.TELEGRAM_BOT_TOKEN \o "/sendMessage",
                                 !.chat_id = env.TELEGRAM_CHAT_ID,
                                 !.text = h.req.message]]]
    /\ UNCHANGED <<tables, creates, hooks, submitted, delivered, faults, resolved, env, pages, wizard>>

\* POST /api/telegram/send, from the answer of the chat-bot service
SendAnswer(s, answer) ==
    /\ apis[s].handler = "send"
    /\ apis[s].pc = "fetch"
    /\ LET h == [apis[s] EXCEPT !.answer = answer]
       IN  apis' = [apis EXCEPT ![s] =
              IF ApiThrows(answer) THEN ApiError(h, 500, "Internal server error")
              ELSE IF ~Ok(answer)
              THEN ApiError(h, answer.status,
                            Or(answer.message, "Failed to send message to Telegram"))
              ELSE ApiData(h, [NoAnswerData EXCEPT !.message_id = answer.data.message_id])]
    /\ UNCHANGED <<tables, creates, hooks, submitted, delivered, faults, resolved, env, pages, wizard>>

ApiStep(s, answers) ==
    \/ Initialize(s)
    \/ Verify(s)
    \/ Send(s)
    \/ \E answer \in answers :
          \/ InitializeAnswer(s, answer)
          \/ VerifyAnswer(s, answer)
          \/ SendAnswer(s, answer)

----------------------------------------------------------------------------
(* The booking wizard (src/unnamed/part_000) *)

\* 1000 * 60 * 60 * 24
MsPerDay == 86400000

\* the value of a date input: the d-th of January 2024 as YYYY-MM-DD
IsoDate(d) ==
    IF d < 10 THEN "2024-01-0" \o ToString(d) ELSE "2024-01-" \o ToString(d)

\* new Date(date).getTime(): a date-only string is midnight UTC of that day;
\* milliseconds are counted from 2024-01-01T00:00:00Z
GetTime(date) ==
    ((CHOOSE d \in 1..31 : IsoDate(d) = date) - 1) * MsPerDay

\* the dates the customer picks, and "" for an input that is cleared
Dates == {IsoDate(d) : d \in 1..MaxDay}

\* car: null
NoCar == [car_id |-> "", daily_rate |-> 0]

\* calculateBookingDetails() returning null
NoDetails == [days |-> 0, dailyRate |-> 0, totalAmount |-> 0]

\* useState(1), the initial bookingData, useState(false)
IdleWizard ==
    [car |-> NoCar, pickupDate |-> "", returnDate |-> "", bookingDetails |-> NoDetails,
     currentStep |-> 1, fullName |-> "", phoneNumber |-> "", email |-> "",
     pickupLocation |-> "", processingPayment |-> FALSE]

\* what the customer types: nothing, a blank, or a value
FullNames == {"", " ", "Ama"}

PhoneNumbers == {"", "P1"}

Emails == {"", " ", "ama@x.gh"}

\* the options of the pickup location select: none chosen, or a location
Locations == {"", "Airport"}

\* String.prototype.trim() on the texts above
Trim(v) == IF v = " " THEN "" ELSE v

\* the step's block is on screen: the component renders nothing without a
\* car, and each block under its own currentStep
Shown(step) == wizard.car # NoCar /\ wizard.currentStep = step

\* Math.abs(x)
Abs(x) == IF x < 0 THEN -x ELSE x

\* Math.ceil(a / b), for a >= 0 and b > 0
Ceil(a, b) == (a + b - 1) \div b

\* the pricing without the substitution of 1 for a difference of 0 days
calculateBookingDetailsNoMinimum(w) ==
    IF ~Truthy(w.pickupDate) \/ ~Truthy(w.returnDate) \/ w.car = NoCar
    THEN NoDetails
    ELSE LET diffTime == Abs(GetTime(w.returnDate) - GetTime(w.pickupDate))
             diffDays == Ceil(diffTime, MsPerDay)
         IN  [days |-> diffDays, dailyRate |-> w.car.daily_rate,
              totalAmount |-> diffDays * w.car.daily_rate]

calculateBookingDetails(w) ==
    IF ~Truthy(w.pickupDate) \/ ~Truthy(w.returnDate) \/ w.car = NoCar
    THEN NoDetails
    ELSE LET diffTime == Abs(GetTime(w.returnDate) - GetTime(w.pickupDate))
             diffDays == IF Ceil(diffTime, MsPerDay) = 0 THEN 1
                         ELSE Ceil(diffTime, MsPerDay)
         IN  [days |-> diffDays, dailyRate |-> w.car.daily_rate,
              totalAmount |-> diffDays * w.car.daily_rate]

\* the component renders: const bookingDetails = calculateBookingDetails()
Render(w) == [w EXCEPT !.bookingDetails = calculateBookingDetails(w)]

\* fetchCar: the car of ?carId=... is loaded; without one the wizard is left
FetchCar(carId) ==
    /\ LET id == Single(Cars, "car_id", carId)
       IN  wizard' = IF id = 0 THEN wizard ELSE Render([wizard EXCEPT !.car = Cars[id]])
    /\ UNCHANGED <<tables, creates, hooks, submitted, delivered, faults, resolved, env, pages, apis>>

\* nextDay.setDate(nextDay.getDate() + 1); nextDay.toISOString().split('T')[0]
NextDay(date) ==
    IsoDate((CHOOSE d \in 1..31 : IsoDate(d) = date) + 1)

\* onChange of the pickup date: a return date not after it moves to the next day
SetPickupDate(selectedDate) ==
    /\ Shown(1)
    /\ wizard' = Render([wizard EXCEPT
          !.pickupDate = selectedDate,
          !.returnDate =
              IF /\ Truthy(@)
                 /\ Truthy(selectedDate)
                 /\ GetTime(@) <= GetTime(selectedDate)
              THEN NextDay(selectedDate) ELSE @])
    /\ UNCHANGED <<tables, creates, hooks, submitted, delivered, faults, resolved, env, pages, apis>>

\* onChange of the return date
SetReturnDate(selectedDate) ==
    /\ Shown(1)
    /\ wizard' = Render([wizard EXCEPT !.returnDate = selectedDate])
    /\ UNCHANGED <<tables, creates, hooks, submitted, delivered, faults, resolved, env, pages, apis>>

\* onChange of the full name input
SetFullName(value) ==
    /\ Shown(2)
    /\ wizard' = Render([wizard EXCEPT !.fullName = value])
    /\ UNCHANGED <<tables, creates, hooks, submitted, delivered, faults, resolved, env, pages, apis>>

\* onChange of the phone number input
SetPhoneNumber(value) ==
    /\ Shown(2)
    /\ wizard' = Render([wizard EXCEPT !.phoneNumber = value])
    /\ UNCHANGED <<tables, creates, hooks, submitted, delivered, faults, resolved, env, pages, apis>>

\* onChange of the email input
SetEmail(value) ==
    /\ Shown(2)
    /\ wizard' = Render([wizard EXCEPT !.email = value])
    /\ UNCHANGED <<tables, creates, hooks, submitted, delivered, faults, resolved, env, pages, apis>>

\* onChange of the pickup location select
SetPickupLocation(value) ==
    /\ Shown(2)
    /\ wizard' = Render([wizard EXCEPT !.pickupLocation = value])
    /\ UNCHANGED <<tables, creates, hooks, submitted, delivered, faults, resolved, env, pages, apis>>

canProceedToStep2(w) ==
    /\ Truthy(w.pickupDate)
    /\ Truthy(w.returnDate)
    /\ GetTime(w.returnDate) > GetTime(w.pickupDate)

\* the contact check without trim()
canProceedToStep3Untrimmed(w) ==
    /\ Truthy(w.fullName)
    /\ Truthy(w.phoneNumber)
    /\ Truthy(w.email)
    /\ Truthy(w.pickupLocation)

canProceedToStep3(w) ==
    /\ Truthy(Trim(w.fullName))
    /\ Truthy(Trim(w.phoneNumber))
    /\ Truthy(Trim(w.email))
    /\ Truthy(w.pickupLocation)

\* the Next button, shown at steps 1 and 2 (its disabled attribute repeats the
\* two conditions of the handler)
handleNext ==
    /\ wizard.car # NoCar
    /\ wizard.currentStep < 3
    /\ wizard' = Render(
          IF wizard.currentStep = 1 /\ canProceedToStep2(wizard)
          THEN [wizard EXCEPT !.currentStep = 2]
          ELSE IF wizard.currentStep = 2 /\ canProceedToStep3(wizard)
          THEN [wizard EXCEPT !.currentStep = 3]
          ELSE wizard)
    /\ UNCHANGED <<tables, creates, hooks, submitted, delivered, faults, resolved, env, pages, apis>>

\* the Back button: one step back, or router.push('/') at step 1, which leaves
\* the wizard; the next visit starts from the initial state
handleBack ==
    /\ wizard.car # NoCar
    /\ wizard' = IF wizard.currentStep > 1
                 THEN Render([wizard EXCEPT !.currentStep = @ - 1])
                 ELSE IdleWizard
    /\ UNCHANGED <<tables, creates, hooks, submitted, delivered, faults, resolved, env, pages, apis>>

\* the Submit button, shown at step 3 and disabled while processingPayment:
\* the booking is posted to /api/booking/create
handleSubmit ==
    /\ Shown(3)
    /\ ~wizard.processingPayment
    /\ wizard' = Render(
          IF wizard.car = NoCar \/ wizard.bookingDetails = NoDetails
          THEN wizard
          ELSE [wizard EXCEPT !.processingPayment = TRUE])
    /\ UNCHANGED <<tables, creates, hooks, submitted, delivered, faults, resolved, env, pages, apis>>

\* the answer to the post: on success router.push to the success page, which
\* leaves the wizard; otherwise alert and setProcessingPayment(false)
SubmitAnswer(ok) ==
    /\ wizard.processingPayment
    /\ wizard' = IF ok THEN IdleWizard
                 ELSE Render([wizard EXCEPT !.processingPayment = FALSE])
    /\ UNCHANGED <<tables, creates, hooks, submitted, delivered, faults, resolved, env, pages, apis>>

----------------------------------------------------------------------------
(* Specifications *)

Init ==
    /\ users = << >>
    /\ bookings = << >>
    /\ payments = << >>
    /\ sessions = InitSessions
    /\ creates = [s \in Slots |-> IdleCreate]
    /\ hooks = [s \in Slots |-> IdleHook]
    /\ submitted = 0
    /\ delivered = 0
    /\ faults = 0
    /\ resolved = {}
    /\ env = ConfiguredEnv
    /\ pages = [s \in Slots |-> IdlePage]
    /\ apis = [s \in Slots |-> IdleApi]
    /\ wizard = IdleWizard

\* Requests of every shape, handled one at a time.  RereadUser is left out:
\* the insert it follows conflicts only with a row inserted by a concurrent
\* request (SpecRace).
Next ==
    \/ \E req \in Requests : Submit(1, req, MaxRequests)
    \/ ResolveStep(1)
    \/ BookStep(1, RandomSuffixes)

Spec == Init /\ [][Next]_vars

\* Identity resolution over a longer history: requests that differ only in
\* session id and phone, handled one at a time, each with fresh identifiers.

NextIdentity ==
    \/ \E req \in IdentityRequests : Submit(1, req, MaxIdentityRequests)
    \/ ResolveStep(1)
    \/ BookStep(1, FreshSuffix(1))

SpecIdentity == Init /\ [][NextIdentity]_vars

\* Concurrent requests of one chat session: two handlers in flight, interleaved
\* at every await.  The users table is empty, or holds the row that an earlier
\* request of another session left behind (a request for an unknown car
\* leaves a User row and nothing else).
SeedUsers ==
    << [whatsapp_id |-> "S2", phone |-> "P1", name |-> "Kofi", email |-> NULL] >>

InitRace ==
    /\ users \in {<< >>, SeedUsers}
    /\ bookings = << >>
    /\ payments = << >>
    /\ sessions = InitSessions
    /\ creates = [s \in Slots |-> IdleCreate]
    /\ hooks = [s \in Slots |-> IdleHook]
    /\ submitted = 0
    /\ delivered = 0
    /\ faults = 0
    /\ resolved = {}
    /\ env = ConfiguredEnv
    /\ pages = [s \in Slots |-> IdlePage]
    /\ apis = [s \in Slots |-> IdleApi]
    /\ wizard = IdleWizard

NextRace ==
    \E s \in Slots :
        \/ \E req \in RaceRequests : Submit(s, req, MaxRaceRequests)
        \/ ResolveStep(s)
        \/ RereadUser(s)
        \/ BookStep(s, FreshSuffix(s))

SpecRace == InitRace /\ [][NextRace]_vars

\* The webhook beside booking creation: requests with and without a session
\* id are handled one at a time while deliveries of any body, signed or not,
\* are handled one at a time, the two handlers interleaved at every await.
HookRequests ==
    {BaseRequest, [BaseRequest EXCEPT !.sessionId = NULL]}

\* references: of a row the creation handler may have inserted, and of none
References == {"PAY-1", "PAY-Z"}

ChargeBodies ==
    {[kind |-> "event", event |-> "charge.success", hasData |-> TRUE, reference |-> r,
      sessionIn |-> m, sessionId |-> IF m = "none" THEN NULL ELSE "S1"] :
        r \in References, m \in {"none", "metadata", "custom_fields"}}

OtherBodies ==
    {NoBody,
     [NoBody EXCEPT !.kind = "null"],
     [NoBody EXCEPT !.kind = "event"],
     [NoBody EXCEPT !.kind = "event", !.event = "charge.success"],
     [NoBody EXCEPT !.kind = "event", !.event = "charge.failed", !.hasData = TRUE,
                    !.reference = "PAY-1"]}

Bodies == ChargeBodies \cup OtherBodies

\* the body with another payment reference in it
Tampered(body) ==
    [body EXCEPT !.reference = IF @ = "PAY-1" THEN "PAY-Z" ELSE "PAY-1"]

\* the header is absent, or the digest under the gateway's key of this body or
\* of the body it was tampered from, or the digest of this body under another key
Signatures(body) ==
    {NoSignature,
     [given |-> TRUE, hex |-> Hmac(PAYSTACK_SECRET_KEY, body)],
     [given |-> TRUE, hex |-> Hmac(PAYSTACK_SECRET_KEY, Tampered(body))],
     [given |-> TRUE, hex |-> Hmac("sk_other", body)]}

NextWebhook ==
    \/ \E req \in HookRequests : Submit(1, req, MaxHookRequests)
    \/ ResolveStep(1)
    \/ BookStep(1, FreshSuffix(1))
    \/ \E body \in Bodies : \E sig \in Signatures(body) : Deliver(1, body, sig)
    \/ HookStep(1)

SpecWebhook == Init /\ [][NextWebhook]_vars

\* The three writers of one booking: the creation handler, deliveries of the
\* gateway's charge.success for the reference of that booking, and loads of
\* the success page, interleaved at every await.
LifecycleBodies ==
    {[kind |-> "event", event |-> "charge.success", hasData |-> TRUE,
      reference |-> PaymentReference("1"),
      sessionIn |-> m, sessionId |-> IF m = "none" THEN NULL ELSE "S1"] :
        m \in {"none", "metadata"}}

\* ?bookingId=: absent, or the id of the first booking, inserted or not yet
BookingIds == {0, 1}

NextLifecycle ==
    \/ \E req \in HookRequests : Submit(1, req, MaxLifecycleRequests)
    \/ ResolveStep(1)
    \/ BookStep(1, FreshSuffix(1))
    \/ \E body \in LifecycleBodies :
          DeliverUpTo(1, body, [given |-> TRUE, hex |-> Hmac(PAYSTACK_SECRET_KEY, body)],
                      MaxLifecycleDeliveries)
    \/ HookStep(1)
    \/ \E b \in BookingIds, k \in {NULL, "S1"} : LoadPage(1, b, k)
    \/ PageStep(1)

\* the users table is empty, or holds the row that an earlier request of
\* another session, or of this session, has left
InitLifecycle ==
    /\ users \in {<< >>, SeedUsers, << NewUser(BaseRequest) >>}
    /\ bookings = << >>
    /\ payments = << >>
    /\ sessions = InitSessions
    /\ creates = [s \in Slots |-> IdleCreate]
    /\ hooks = [s \in Slots |-> IdleHook]
    /\ submitted = 0
    /\ delivered = 0
    /\ faults = 0
    /\ resolved = {}
    /\ env = ConfiguredEnv
    /\ pages = [s \in Slots |-> IdlePage]
    /\ apis = [s \in Slots |-> IdleApi]
    /\ wizard = IdleWizard

SpecLifecycle == InitLifecycle /\ [][NextLifecycle]_vars

\* The handlers that call an external service, and the webhook, under every
\* configuration of the secrets.  The tables hold what one request of
\* BaseRequest has left.
Envs ==
    {ConfiguredEnv,
     [ConfiguredEnv EXCEPT !.PAYSTACK_SECRET_KEY = ""],
     [ConfiguredEnv EXCEPT !.TELEGRAM_BOT_TOKEN = ""],
     [ConfiguredEnv EXCEPT !.TELEGRAM_CHAT_ID = ""]}

SeedCreate ==
    [IdleCreate EXCEPT !.req = BaseRequest, !.userId = 1, !.carRowId = 1,
                       !.orderId = OrderId("1"),
                       !.paymentReference = PaymentReference("1"),
                       !.bookingId = 1, !.n = 1]

InitGateway ==
    /\ users = << NewUser(BaseRequest) >>
    /\ bookings = << NewBooking(SeedCreate, SeedCreate.orderId, SeedCreate.paymentReference) >>
    /\ payments = << NewPayment(SeedCreate) >>
    /\ sessions = [InitSessions EXCEPT !["S1"] = BookedSession(SeedCreate)]
    /\ creates = [s \in Slots |-> IdleCreate]
    /\ hooks = [s \in Slots |-> IdleHook]
    /\ submitted = 0
    /\ delivered = 0
    /\ faults = 0
    /\ resolved = {}
    /\ env \in Envs
    /\ pages = [s \in Slots |-> IdlePage]
    /\ apis = [s \in Slots |-> IdleApi]
    /\ wizard = IdleWizard

\* amounts in thousandths of a cedi: none, 400.00, 10.004 and 10.006
InitializeRequests ==
    {[NoApiRequest EXCEPT !.email = e, !.amount = a, !.metadata = "S1"] :
        e \in {"", "ama@x.gh"}, a \in {0, 400000, 10004, 10006}}

VerifyRequests ==
    {[NoApiRequest EXCEPT !.reference = r] : r \in {NULL, "PAY-1", "PAY-Z"}}

SendRequests ==
    {[NoApiRequest EXCEPT !.message = m] : m \in {"", "New Booking Confirmed!"}}

\* what the gateway and the chat-bot service may answer
AnswerData ==
    {[NoAnswerData EXCEPT !.authorization_url = "https://checkout.paystack.com/ac_1",
                          !.access_code = "ac_1", !.reference = "PAY-1",
                          !.status = t, !.amount = 40000, !.message_id = 7] :
        t \in {"success", "failed"}}

Answers ==
    {NoAnswer,
     [NoAnswer EXCEPT !.kind = "text", !.status = 502],
     [NoAnswer EXCEPT !.kind = "json", !.status = 401, !.message = "Invalid key"],
     [NoAnswer EXCEPT !.kind = "json", !.status = 400],
     [NoAnswer EXCEPT !.kind = "json", !.status = 200, !.message = "ok"]}
        \cup {[NoAnswer EXCEPT !.kind = "json", !.status = 200, !.message = "ok",
                               !.hasData = TRUE, !.data = d] : d \in AnswerData}

NextGateway ==
    \/ \E req \in InitializeRequests : Call(1, "initialize", req)
    \/ \E req \in VerifyRequests : Call(1, "verify", req)
    \/ \E req \in SendRequests : Call(1, "send", req)
    \/ ApiStep(1, Answers)
    \/ \E body \in LifecycleBodies \cup {NoBody} :
          \E sig \in Signatures(body) : Deliver(1, body, sig)
    \/ HookStep(1)

SpecGateway == InitGateway /\ [][NextGateway]_vars

\* The wizard: a car is loaded, dates are picked at step 1, contact details
\* are entered at step 2, the booking is submitted at step 3, with Next and
\* Back pressed at any time.
NextWizard ==
    \/ \E carId \in {"CAR-001", "CAR-999"} : FetchCar(carId)
    \/ \E d \in Dates \cup {""} : SetPickupDate(d)
    \/ \E d \in Dates \cup {""} : SetReturnDate(d)
    \/ \E v \in FullNames : SetFullName(v)
    \/ \E v \in PhoneNumbers : SetPhoneNumber(v)
    \/ \E v \in Emails : SetEmail(v)
    \/ \E v \in Locations : SetPickupLocation(v)
    \/ handleNext
    \/ handleBack
    \/ handleSubmit
    \/ \E ok \in BOOLEAN : SubmitAnswer(ok)

SpecWizard == Init /\ [][NextWizard]_vars

----------------------------------------------------------------------------
(* Claims about booking creation *)

Started(h) == h.pc \notin {"idle", "start"}

Done(h) == h.pc = "done"

Made(h, op) == \E i \in 1..Len(h.ops) : h.ops[i] = op

\* the six fields the interface requires
RequiredFields ==
    {"car_id", "pickup_date", "return_date", "full_name", "phone_number",
     "pickup_location"}

\* C1: a request in which car_id, pickup_date, return_date, full_name,
\* phone_number or pickup_location is absent is answered 400 "Missing required
\* fields" without a single database call.
C1_MissingFieldsRejected ==
    \A s \in Slots :
        LET h == creates[s]
        IN  (Started(h) /\ \E f \in RequiredFields : h.req[f] \in {"", NULL}) =>
               /\ Done(h)
               /\ h.resp = [status |-> 400, body |-> "Missing required fields"]
               /\ h.ops = << >>

\* a request that lacks only pickup_location has been answered, with rows in the tables
C1_Witness ==
    /\ Done(creates[1])
    /\ creates[1].req = [BaseRequest EXCEPT !.pickup_location = ""]
    /\ creates[1].resp.status = 400
    /\ Len(users) = 1 /\ Len(bookings) = 1 /\ Len(payments) = 1

UnknownCar(req) == ~MissingRequired(req) /\ Matching(Cars, "car_id", req.car_id) = {}

NoBookingWrites(h) ==
    /\ ~Made(h, "bookings.insert")
    /\ ~Made(h, "payments.insert")
    /\ ~Made(h, "sessions.update")
    /\ h.bookingId = 0

\* C2 as stated: a complete request for a car_id that matches no Car row ends
\* with 404 "Car not found", having inserted no Booking and no Payment and
\* updated no Session.
C2_UnknownCarIs404 ==
    \A s \in Slots :
        LET h == creates[s]
        IN  (Done(h) /\ UnknownCar(h.req)) =>
               /\ h.resp = [status |-> 404, body |-> "Car not found"]
               /\ NoBookingWrites(h)

\* C2 as amended: such a request ends with 404 "Car not found" once its user
\* is resolved, and with 500 "Failed to create user" when the User insert
\* fails before the car is looked up; either way it inserts no Booking and no
\* Payment and updates no Session.
C2_UnknownCarNoBooking ==
    \A s \in Slots :
        LET h == creates[s]
        IN  (Started(h) /\ UnknownCar(h.req)) =>
               /\ NoBookingWrites(h)
               /\ Done(h) =>
                     \/ /\ h.userId # 0
                        /\ h.resp = [status |-> 404, body |-> "Car not found"]
                     \/ /\ h.userId = 0
                        /\ h.ops[Len(h.ops)] = "users.insert"
                        /\ h.resp = [status |-> 500, body |-> "Failed to create user"]

\* an unknown car is refused after an earlier request has booked
C2_Witness ==
    /\ Done(creates[1])
    /\ creates[1].req.car_id = "CAR-999"
    /\ creates[1].resp.status = 404
    /\ Len(bookings) = 1 /\ Len(payments) = 1

\* C3: every Booking row that the handler inserts has
\* total_amount = days * daily_rate.
C3_TotalIsDaysTimesRate ==
    \A i \in 1..Len(bookings) :
        bookings[i].total_amount = bookings[i].days * bookings[i].daily_rate

\* C4: two concurrent requests of one session never leave two User rows with
\* the same whatsapp_id, and both resolve to the same user id.
C4_OneUserPerConcurrentSession ==
    /\ \A i, j \in 1..Len(users) :
          users[i].whatsapp_id = users[j].whatsapp_id => i = j
    /\ \A p, q \in resolved : p[1] = q[1] => p[2] = q[2]

PhoneMatches(h) == Matching(users, "phone", h.req.phone_number)

\* the path through the handler that adopted the phone-matched user
Adopted(h) ==
    /\ Len(h.ops) >= 3
    /\ h.ops[2] = "users.select"
    /\ h.ops[3] = "users.update"

AdoptionEffect(h) ==
    /\ h.pc = "adoptUser" => PhoneMatches(h) = {h.userId}
    /\ Adopted(h) =>
          /\ users[h.userId].whatsapp_id = WhatsappId(h.req)
          /\ users[h.userId].phone = h.req.phone_number
          /\ ~Made(h, "users.insert")
          /\ h.bookingId # 0 => bookings[h.bookingId].user_id = h.userId

C6_SessionResolvesToOneUser ==
    \A p, q \in resolved : p[1] = q[1] => p[2] = q[2]

----------------------------------------------------------------------------
(* Claims about the payment webhook *)

\* the header carries the digest of exactly this body under the gateway's key
Authentic(k) ==
    k.signature = [given |-> TRUE, hex |-> Hmac(PAYSTACK_SECRET_KEY, k.body)]

\* the header carries the digest of another body under the gateway's key
SignedForAnotherBody(k) ==
    /\ k.signature.given
    /\ \E b \in Bodies \cup {Tampered(k.body)} :
          b # k.body /\ k.signature.hex = Hmac(PAYSTACK_SECRET_KEY, b)

Unauthorized(k) ==
    /\ Done(k)
    /\ k.resp = [status |-> 401, body |-> "Invalid signature"]
    /\ k.ops = << >>

\* C7: the webhook reaches the database only when the header is the HMAC of the
\* exact raw body under the configured secret; a body other than the signed
\* one, with the header kept, is answered 401 without any database access.
C7_OnlySignedBodyReachesDatabase ==
    \A s \in Slots :
        LET k == hooks[s]
        IN  Started(k) =>
               /\ (k.ops # << >> \/ k.pc \notin {"start", "done"}) => Authentic(k)
               /\ SignedForAnotherBody(k) => Unauthorized(k)

\* a delivery for the existing payment PAY-1, under the signature of the body
\* that named PAY-Z, has been refused
C7_Witness ==
    LET k == hooks[1]
    IN  /\ Unauthorized(k)
        /\ k.body.event = "charge.success" /\ k.body.reference = "PAY-1"
        /\ k.signature.hex = Hmac(PAYSTACK_SECRET_KEY, [k.body EXCEPT !.reference = "PAY-Z"])
        /\ Len(payments) >= 1 /\ payments[1].payment_reference = "PAY-1"

\* C8 as stated: a delivery whose signature header is missing or does not
\* match is answered 401, with nothing read from or written to the database.
C8_MissingOrMismatchIs401 ==
    \A s \in Slots :
        LET k == hooks[s]
        IN  (Started(k) /\ ~Authentic(k)) =>
               /\ Done(k)
               /\ k.resp.status = 401
               /\ k.ops = << >>

\* C8 as amended: a delivery without the header is answered 400 "No signature
\* provided", one whose header does not match is answered 401 "Invalid
\* signature"; in both cases nothing is read from or written to the database.
C8_Missing400Mismatch401 ==
    \A s \in Slots :
        LET k == hooks[s]
        IN  (Started(k) /\ ~Authentic(k)) =>
               /\ Done(k)
               /\ k.ops = << >>
               /\ k.resp = IF k.signature.given
                           THEN [status |-> 401, body |-> "Invalid signature"]
                           ELSE [status |-> 400, body |-> "No signature provided"]

\* a delivery for the existing payment PAY-1 without the header has been
\* answered 400
C8_Witness ==
    LET k == hooks[1]
    IN  /\ Done(k) /\ ~k.signature.given
        /\ k.resp.status = 400
        /\ k.body.event = "charge.success" /\ k.body.reference = "PAY-1"
        /\ Len(payments) >= 1 /\ payments[1].payment_reference = "PAY-1"

ChargeSuccess(body) ==
    body.kind = "event" /\ body.event = "charge.success" /\ body.hasData

NoUpdates(k) ==
    /\ ~Made(k, "payments.update")
    /\ ~Made(k, "bookings.update")
    /\ ~Made(k, "sessions.update")

Erred(h, op) == \E i \in 1..Len(h.errs) : h.errs[i] = op

IsPrefix(a, b) == Len(a) <= Len(b) /\ \A i \in 1..Len(a) : a[i] = b[i]

\* the database calls of a delivery that has found its Payment row
HookWrites(k) ==
    <<"payments.select", "payments.update", "bookings.update">>
        \o (IF Truthy(SessionIdOf(k.body)) THEN <<"sessions.update">> ELSE << >>)

\* C11: an authenticated charge.success whose Payment row exists attempts, in
\* this order, the update of the Payment (status 'success', paid_at), the
\* update of the Booking with the payment's order_id (paid/paid) and, only
\* with a session id in the metadata, the update of the Session; a write that
\* fails stops none of the later ones and the answer is 200 {received: true}.
C11_WebhookWritesIndependent ==
    \A s \in Slots :
        LET k == hooks[s]
        IN  (Started(k) /\ Authentic(k) /\ ChargeSuccess(k.body) /\ k.orderId # NULL) =>
               /\ IsPrefix(k.ops, HookWrites(k))
               /\ Done(k) =>
                     /\ k.ops = HookWrites(k)
                     /\ k.resp = [status |-> 200, body |-> "received"]
               /\ (Made(k, "payments.update") /\ ~Erred(k, "payments.update")) =>
                     \A i \in Matching(payments, "payment_reference", k.body.reference) :
                        payments[i].status = "success" /\ payments[i].paid_at = Now("hook", k.n)
               /\ (Made(k, "bookings.update") /\ ~Erred(k, "bookings.update")) =>
                     \A i \in Matching(bookings, "order_id", k.orderId) :
                        bookings[i].status = "paid" /\ bookings[i].payment_status = "paid"

\* the update of the payment PAY-1 has failed; the booking and the session S1
\* were updated all the same and the delivery was answered 200
C11_Witness ==
    LET k == hooks[1]
    IN  /\ Done(k) /\ Authentic(k)
        /\ k.errs = <<"payments.update">>
        /\ k.ops = <<"payments.select", "payments.update", "bookings.update",
                     "sessions.update">>
        /\ k.resp = [status |-> 200, body |-> "received"]
        /\ payments[1].paid_at = "create-1"
        /\ sessions["S1"].session_data.booking_id = 0
        /\ sessions["S1"].session_data.payment_reference = "PAY-1"

\* C10: once the signature is verified, the webhook answers 200
\* {received: true}, whatever the body and whatever the database does.
C10_AuthenticatedAlways200 ==
    \A s \in Slots :
        LET k == hooks[s]
        IN  (Done(k) /\ Authentic(k)) => k.resp = [status |-> 200, body |-> "received"]

----------------------------------------------------------------------------
(* Claims about the writes of booking creation *)

\* C12: when the Booking insert fails the request ends with 500 and neither
\* the Payment insert nor the Session update is attempted; when the Booking
\* insert succeeds and the Payment insert fails, the answer is still
\* {success: true, booking_id, order_id, payment_reference}, the Booking row
\* stays, and the Session update is made when a sessionId was supplied.
C12_OnlyBookingInsertFatal ==
    \A s \in Slots :
        LET h == creates[s]
        IN  /\ Erred(h, "bookings.insert") =>
                  /\ Done(h)
                  /\ h.resp = [status |-> 500, body |-> "Failed to create booking"]
                  /\ ~Made(h, "payments.insert")
                  /\ ~Made(h, "sessions.update")
            /\ Erred(h, "payments.insert") =>
                  /\ h.pc \in {"updateSession", "done"}
                  /\ h.bookingId \in 1..Len(bookings)
                  /\ bookings[h.bookingId].order_id = h.orderId
                  /\ bookings[h.bookingId].payment_reference = h.paymentReference
                  /\ Done(h) =>
                        /\ h.resp = [status |-> 200, body |-> "success"]
                        /\ Made(h, "sessions.update") <=> Truthy(h.req.sessionId)

\* the Payment insert of a request of session S1 has failed: the request was
\* answered with success, its Booking is there and the Session is BOOKED
C12_Witness ==
    LET h == creates[1]
    IN  /\ Done(h)
        /\ h.errs = <<"payments.insert">>
        /\ h.resp.status = 200
        /\ Len(bookings) = 1 /\ Len(payments) = 0
        /\ sessions["S1"].session_state = "BOOKED"
        /\ sessions["S1"].session_data.booking_id = 1

\* the inserts and updates of bookings, payments and sessions in the call log
Writes(h) ==
    SelectSeq(h.ops, LAMBDA op : op \in {"bookings.insert", "payments.insert",
                                          "sessions.update"})

\* C13: booking creation writes in the order Booking insert, Payment insert,
\* Session update; the Session update is made only when a session id was
\* supplied, sets session_state 'BOOKED' with the booking's order_id,
\* booking_id and payment_reference, and its failure is not surfaced: the
\* answer is still success.
C13_WritesInOrder ==
    \A s \in Slots :
        LET h == creates[s]
            k == h.req.sessionId
        IN  /\ IsPrefix(Writes(h), <<"bookings.insert", "payments.insert", "sessions.update">>)
            /\ Made(h, "sessions.update") => Truthy(k)
            /\ (Done(h) /\ Made(h, "payments.insert") /\ Truthy(k)) =>
                  Made(h, "sessions.update")
            /\ Made(h, "sessions.update") =>
                  /\ Done(h)
                  /\ h.resp = [status |-> 200, body |-> "success"]
                  /\ (~Erred(h, "sessions.update") /\ sessions[k] # NoRow) =>
                        /\ sessions[k].session_state = "BOOKED"
                        /\ sessions[k].session_data.order_id = h.orderId
                        /\ sessions[k].session_data.booking_id = h.bookingId
                        /\ sessions[k].session_data.payment_reference = h.paymentReference

\* the second request of session S1 has been answered with success although
\* its Session update failed: the Session still names the first booking
C13_Witness ==
    LET h == creates[1]
    IN  /\ Done(h) /\ h.n = 2
        /\ h.errs = <<"sessions.update">>
        /\ h.ops[Len(h.ops)] = "sessions.update"
        /\ h.resp = [status |-> 200, body |-> "success"]
        /\ h.bookingId = 2
        /\ sessions["S1"].session_state = "BOOKED"
        /\ sessions["S1"].session_data.booking_id = 1

----------------------------------------------------------------------------
(* Claims about the three writers of a booking *)

\* C14: in every interleaving of booking creation, the webhook and the success
\* page, a Session whose session_state is 'BOOKED' keeps that state in every
\* later step.
C14_BookedStaysBooked ==
    [][\A k \in SessionIds :
          sessions[k].session_state = "BOOKED" => sessions'[k].session_state = "BOOKED"]_vars

\* the webhook has written the Session S1 after it was BOOKED: the state is
\* BOOKED and the session_data is the webhook's
C14_Witness ==
    /\ Done(hooks[1])
    /\ Made(hooks[1], "sessions.update")
    /\ sessions["S1"].session_state = "BOOKED"
    /\ sessions["S1"].session_data.booking_id = 0
    /\ sessions["S1"].session_data.payment_reference = "PAY-1"

Paid(row) == row.status = "paid" /\ row.payment_status = "paid"

\* no handler is in the middle of its steps
Quiescent ==
    /\ \A s \in Slots : creates[s].pc \in {"idle", "done"}
    /\ \A s \in Slots : hooks[s].pc \in {"idle", "done"}
    /\ \A s \in Slots : pages[s].pc \in {"idle", "done"}

\* C16: in every interleaving of the creation handler's writes, deliveries of
\* charge.success for the same reference and loads of the success page, a
\* Booking that is paid/paid stays paid/paid and a Payment that is 'success'
\* stays 'success'; once all steps have run, every Booking is paid/paid and
\* every Payment row is 'success'.
C16_PaidConverges ==
    /\ [](Quiescent =>
             /\ \A i \in 1..Len(bookings) : Paid(bookings[i])
             /\ \A i \in 1..Len(payments) : payments[i].status = "success")
    /\ [][/\ \A i \in 1..Len(bookings) :
                Paid(bookings[i]) => i <= Len(bookings') /\ Paid(bookings'[i])
          /\ \A i \in 1..Len(payments) :
                payments[i].status = "success" =>
                   i <= Len(payments') /\ payments'[i].status = "success"]_vars

\* the creation handler, two deliveries for PAY-1 and a load of the success
\* page for booking 1 have all run to their end
C16_Witness ==
    /\ Quiescent
    /\ creates[1].bookingId = 1
    /\ delivered = 2
    /\ Made(hooks[1], "bookings.update")
    /\ pages[1].bookingData = 1 /\ Made(pages[1], "sessions.update")
    /\ Len(payments) = 1 /\ payments[1].paid_at = "hook-2"
    /\ Paid(bookings[1])

\* C15: every Booking row has, from its creation on, deposit_amount equal to
\* its total_amount, balance_amount 0, status 'paid' and payment_status
\* 'paid'; hence deposit_amount + balance_amount = total_amount.
C15_PaidInFullAtCreation ==
    \A i \in 1..Len(bookings) :
        /\ bookings[i].deposit_amount = bookings[i].total_amount
        /\ bookings[i].balance_amount = 0
        /\ bookings[i].status = "paid"
        /\ bookings[i].payment_status = "paid"
        /\ bookings[i].deposit_amount + bookings[i].balance_amount = bookings[i].total_amount

\* two bookings of two days at rate 200, one with the total the client sent
\* as 400 and one with the total the client sent as 200
C15_Witness ==
    /\ Len(bookings) = 2
    /\ bookings[1].total_amount = 400 /\ bookings[1].deposit_amount = 400
    /\ bookings[2].days = 2 /\ bookings[2].daily_rate = 200
    /\ bookings[2].total_amount = 200 /\ bookings[2].deposit_amount = 200

----------------------------------------------------------------------------
(* Claims about the booking wizard *)

\* C17: with both dates and a car, days is the number of whole days between
\* the two dates, whichever comes first, 1 when they are the same day, and
\* totalAmount is days * daily_rate (rate 200, 2024-01-01 to 2024-01-03: days
\* 2, totalAmount 400); without a date or without a car the result is null.
C17_DaysAndTotal ==
    LET w == wizard
        b == w.bookingDetails
    IN  IF w.pickupDate = "" \/ w.returnDate = "" \/ w.car = NoCar
        THEN b = NoDetails
        ELSE \E p, r \in 1..31 :
                /\ IsoDate(p) = w.pickupDate
                /\ IsoDate(r) = w.returnDate
                /\ b.days = (IF p = r THEN 1 ELSE IF p < r THEN r - p ELSE p - r)
                /\ b.dailyRate = w.car.daily_rate
                /\ b.totalAmount = b.days * w.car.daily_rate

\* the car at rate 200 from 2024-01-01 to 2024-01-03: two days, 400
C17_Witness ==
    /\ wizard.car.daily_rate = 200
    /\ wizard.pickupDate = "2024-01-01"
    /\ wizard.returnDate = "2024-01-03"
    /\ wizard.bookingDetails = [days |-> 2, dailyRate |-> 200, totalAmount |-> 400]

----------------------------------------------------------------------------
(* Claims about the handlers that call an external service *)

\* the external service has answered the fetch of handler h
Answered(h) == Done(h) /\ h.out # NoCall /\ h.answer.kind # "network"

\* C18: payment initiation and payment verification answer a non-success
\* status of the gateway with that same status and the gateway's message as
\* the error; on success, initiation returns the gateway's authorization_url,
\* access_code and reference unchanged, having sent the amount in minor units
\* (amount * 100, rounded).
C18_GatewayPassedThrough ==
    \A s \in Slots :
        LET h == apis[s]
        IN  (h.handler \in {"initialize", "verify"} /\ Answered(h)) =>
               /\ ~Ok(h.answer) =>
                     /\ h.resp.status = h.answer.status
                     /\ h.answer.message # NULL => h.resp.error = h.answer.message
               /\ (h.handler = "initialize" /\ Ok(h.answer) /\ h.answer.hasData) =>
                     /\ h.resp.status = 200
                     /\ h.resp.data.authorization_url = h.answer.data.authorization_url
                     /\ h.resp.data.access_code = h.answer.data.access_code
                     /\ h.resp.data.reference = h.answer.data.reference
                     /\ h.out.amount * 10 - h.req.amount \in -5..5

\* C19: the verification handler leaves users, bookings, payments and
\* sessions as they are in every one of its steps, whatever the request and
\* whatever the gateway answers.
C19_VerifyReadsThrough ==
    [][\A s \in Slots :
          (apis'[s].handler = "verify" /\ apis'[s] # apis[s]) =>
             UNCHANGED <<users, bookings, payments, sessions>>]_vars

\* the gateway has verified PAY-1 as 'success' and the handler has passed that
\* on, while the Payment row of PAY-1 stands as the creation handler left it
C19_Witness ==
    LET h == apis[1]
    IN  /\ h.handler = "verify" /\ Done(h)
        /\ h.resp.status = 200
        /\ h.resp.data.status = "success"
        /\ h.resp.data.reference = "PAY-1"
        /\ h.resp.data.amount = 400000
        /\ payments[1].payment_reference = "PAY-1"
        /\ payments[1].paid_at = "create-1"

\* C20: without the gateway secret, payment initiation, verification and the
\* webhook answer with an error of their own, call no external service and
\* touch no table, and the webhook accepts no request as authenticated;
\* without the chat-bot token or channel id the notification sender answers
\* 500 "Telegram not configured" and calls no external service.
C20_UnconfiguredIsRefused ==
    \A s \in Slots :
        LET h == apis[s]
            k == hooks[s]
        IN  /\ ~Truthy(env.PAYSTACK_SECRET_KEY) =>
                  /\ (h.handler \in {"initialize", "verify"} /\ Started(h)) =>
                        /\ Done(h)
                        /\ h.out = NoCall
                        /\ h.resp.status >= 400
                  /\ Started(k) =>
                        /\ Done(k)
                        /\ k.ops = << >>
                        /\ k.resp.status >= 400
            /\ ( /\ ~Truthy(env.TELEGRAM_BOT_TOKEN) \/ ~Truthy(env.TELEGRAM_CHAT_ID)
                 /\ h.handler = "send" /\ Started(h) /\ Truthy(h.req.message) ) =>
                        /\ Done(h)
                        /\ h.out = NoCall
                        /\ h.resp.status = 500
                        /\ h.resp.error = "Telegram not configured"

\* the calls of one kind a handler or page has made
Count(h, op) == Cardinality({i \in 1..Len(h.ops) : h.ops[i] = op})

\* C21: a Success page that has fetched its booking and finished its effect
\* shows the receipt, whatever became of the notification send, and has sent
\* at most once.
C21_NotificationFailureKeepsReceipt ==
    \A s \in Slots :
        LET p == pages[s]
        IN  (Done(p) /\ p.bookingData # 0) =>
               /\ Rendered(p) = "receipt"
               /\ Count(p, "telegram.send") <= 1

\* C22: a Success page opened without a booking id, or whose booking lookup
\* gave an error or no row, ends on the error card with loading off, having
\* made neither a Session update nor a notification call; none of its steps
\* changes a Session row.
C22_FailurePathStopsAtErrorCard ==
    /\ [](\A s \in Slots :
            LET p == pages[s]
            IN  (Done(p) /\ p.n > 0 /\ p.bookingData = 0) =>
                   /\ Rendered(p) = "error"
                   /\ ~p.loading
                   /\ p.error \in {"No booking ID found", "Booking not found"}
                   /\ ~Made(p, "sessions.update")
                   /\ ~Made(p, "telegram.send"))
    /\ [][\A s \in Slots :
            (pages'[s] # pages[s] /\ pages'[s].bookingData = 0) =>
               UNCHANGED sessions]_vars

\* a page opened for booking 1 with a stored session id, before any booking
\* exists: the lookup finds no row, the page shows "Booking not found" and the
\* session is as it was
C22_Witness ==
    LET p == pages[1]
    IN  /\ Done(p)
        /\ p.bookingId = 1
        /\ p.sessionId = "S1"
        /\ p.bookingData = 0
        /\ p.ops = <<"bookings.select">>
        /\ Rendered(p) = "error"
        /\ p.error = "Booking not found"
        /\ sessions["S1"] = InitSessions["S1"]

\* C23: no two Booking rows share an order_id and no two Payment rows share a
\* payment_reference.
C23_GeneratedIdsUnique ==
    /\ \A i, j \in 1..Len(bookings) :
          bookings[i].order_id = bookings[j].order_id => i = j
    /\ \A i, j \in 1..Len(payments) :
          payments[i].payment_reference = payments[j].payment_reference => i = j

\* the handler in slot s answered 500 "Failed to create user"
UserCreationFailed(h) ==
    /\ Done(h)
    /\ h.resp = [status |-> 500, body |-> "Failed to create user"]

\* C24: a User insert that meets a uniqueness conflict goes on to the re-read
\* by whatsapp_id, and a re-read that finds the row continues with it; the
\* handler answers 500 "Failed to create user" only after an insert error that
\* is no conflict or after a re-read that gave no row, and then it has written
\* no Booking, Payment or Session.
C24_ConflictRecovered ==
    /\ [](\A s \in Slots :
            LET h == creates[s]
            IN  UserCreationFailed(h) =>
                   /\ \/ Erred(h, "users.insert")
                      \/ /\ Made(h, "users.insert")
                         /\ h.ops[Len(h.ops)] = "users.select"
                         /\ \/ Erred(h, "users.select")
                            \/ MaybeSingle(users, "whatsapp_id", WhatsappId(h.req)) = 0
                   /\ NoBookingWrites(h)
                   /\ h.userId = 0)
    /\ [][\A s \in Slots :
            LET h   == creates[s]
                g   == creates'[s]
                key == WhatsappId(h.req)
                id  == MaybeSingle(users, "whatsapp_id", key)
            IN  /\ (h.pc = "insertUser" /\ g # h /\ WhatsappTaken(key, 0)
                      /\ faults' = faults) =>
                       /\ g.pc = "rereadUser"
                       /\ UNCHANGED users
                /\ (h.pc = "rereadUser" /\ g # h /\ id # 0 /\ faults' = faults) =>
                       /\ g.pc = "lookupCar"
                       /\ g.userId = id
                       /\ users[id].whatsapp_id = key
                       /\ UNCHANGED users]_vars

\* two concurrent requests of session S1 both miss the lookups; the first
\* inserts User 1, the second meets the conflict, re-reads User 1 and goes on
\* to a booking for that user
C24_Witness ==
    LET h == creates[2]
    IN  /\ Done(h)
        /\ h.resp.status = 200
        /\ Len(h.ops) >= 4
        /\ h.ops[3] = "users.insert"
        /\ h.ops[4] = "users.select"
        /\ h.userId = 1
        /\ creates[1].userId = 1
        /\ Len(users) = 1
        /\ users[1].whatsapp_id = "S1"
        /\ Len(bookings) = 2
        /\ bookings[2].user_id = 1

UserOps == {"users.select", "users.insert", "users.update"}

\* C26: a request that ends in 404 "Car not found" has resolved its user
\* first: it holds a user id, has inserted or updated a User row before the
\* car lookup, and has written no Booking, Payment or Session; no step of a
\* request for an unknown car changes bookings, payments or sessions.
C26_UserResolvedBeforeCar ==
    /\ [](\A s \in Slots :
            LET h == creates[s]
                n == Len(h.ops)
            IN  (Done(h) /\ h.resp = [status |-> 404, body |-> "Car not found"]) =>
                   /\ h.userId # 0
                   /\ n >= 3
                   /\ h.ops[n] = "cars.select"
                   /\ \A i \in 1..(n - 1) : h.ops[i] \in UserOps
                   /\ h.ops[n - 1] \in {"users.insert", "users.update"}
                   /\ NoBookingWrites(h))
    /\ [][\A s \in Slots :
            (creates'[s] # creates[s] /\ UnknownCar(creates'[s].req)) =>
               UNCHANGED <<bookings, payments, sessions>>]_vars

\* the first request ever names an unknown car: it is answered 404 and leaves
\* a new User row with no Booking
C26_Witness ==
    LET h == creates[1]
    IN  /\ Done(h)
        /\ h.resp.status = 404
        /\ h.ops = <<"users.select", "users.select", "users.insert", "cars.select">>
        /\ users = <<NewUser(h.req)>>
        /\ h.userId = 1
        /\ bookings = << >>
        /\ payments = << >>
        /\ sessions = InitSessions

\* C27: each write of a Session row replaces session_data as a whole: the
\* webhook's write leaves exactly booking_completed, payment_reference and
\* order_id (no booking_id), the Success page's write leaves exactly
\* booking_completed, order_id and booking_id (no payment_reference), and the
\* creation handler's write leaves all four, whatever was stored before.
C27_SessionDataReplaced ==
    [][\A k \in SessionIds, s \in Slots :
          sessions'[k] # sessions[k] =>
             /\ hooks'[s] # hooks[s] =>
                   sessions'[k].session_data =
                      [booking_completed |-> TRUE,
                       payment_reference |-> hooks[s].reference,
                       order_id |-> hooks[s].orderId,
                       booking_id |-> 0]
             /\ pages'[s] # pages[s] =>
                   sessions'[k].session_data =
                      [booking_completed |-> TRUE,
                       payment_reference |-> NULL,
                       order_id |-> pages[s].orderId,
                       booking_id |-> pages[s].bookingData]
             /\ creates'[s] # creates[s] =>
                   sessions'[k].session_data =
                      [booking_completed |-> TRUE,
                       payment_reference |-> creates[s].paymentReference,
                       order_id |-> creates[s].orderId,
                       booking_id |-> creates[s].bookingId]]_vars

\* creation handler, webhook and Success page have each written Session S1
\* and the page wrote last: the payment_reference that the creation handler
\* and the webhook stored is gone
C27_Witness ==
    /\ Quiescent
    /\ Made(creates[1], "sessions.update") /\ ~Erred(creates[1], "sessions.update")
    /\ Made(hooks[1], "sessions.update") /\ ~Erred(hooks[1], "sessions.update")
    /\ Made(pages[1], "sessions.update")
    /\ faults = 0
    /\ sessions["S1"].session_data =
          [booking_completed |-> TRUE, payment_reference |-> NULL,
           order_id |-> "ORD-1", booking_id |-> 1]

\* Booking row b is the booking that Payment row p was created for
PaymentOf(p, b) ==
    /\ b.order_id = p.order_id
    /\ b.payment_reference = p.payment_reference
    /\ b.total_amount = p.amount

\* C28: every Payment row has a Booking row with its order_id and its
\* payment_reference, and its amount is that Booking's total_amount.
C28_PaymentHasItsBooking ==
    \A i \in 1..Len(payments) :
        \E j \in 1..Len(bookings) : PaymentOf(payments[i], bookings[j])

\* the second request has inserted its Booking and not yet its Payment: the
\* one Payment row belongs to the first Booking, the second Booking has none
C28_Witness ==
    /\ creates[1].pc = "insertPayment"
    /\ Len(bookings) = 2
    /\ Len(payments) = 1
    /\ PaymentOf(payments[1], bookings[1])
    /\ ~PaymentOf(payments[1], bookings[2])

\* the session_data that a delivery writes: a function of the event's
\* reference and of the order_id of the Payment row found under it
HookData(k) ==
    [booking_completed |-> TRUE, payment_reference |-> k.reference,
     order_id |-> k.orderId, booking_id |-> 0]

\* C29: every write of a delivery of charge.success sets the same status
\* values whatever the delivery's number: a Payment row of the reference gets
\* status 'success' and a new paid_at and nothing else, a Booking row that is
\* paid/paid is left as it is, and a Session row gets the event's
\* session_data and a new last_message_at and nothing else; so a delivery
\* after the first changes paid_at and last_message_at only.
C29_RedeliveryChangesTimestampsOnly ==
    [][\A s \in Slots :
          LET k == hooks[s]
          IN  hooks'[s] # k =>
                 /\ Len(payments') = Len(payments)
                 /\ \A i \in 1..Len(payments) :
                       \/ payments'[i] = payments[i]
                       \/ /\ payments[i].payment_reference = k.reference
                          /\ payments'[i] = [payments[i] EXCEPT
                                                !.status = "success",
                                                !.paid_at = Now("hook", k.n)]
                 /\ Len(bookings') = Len(bookings)
                 /\ \A i \in 1..Len(bookings) :
                       \/ bookings'[i] = bookings[i]
                       \/ /\ ~Paid(bookings[i])
                          /\ bookings'[i] = [bookings[i] EXCEPT !.status = "paid",
                                                                !.payment_status = "paid"]
                 /\ \A key \in SessionIds :
                       \/ sessions'[key] = sessions[key]
                       \/ sessions'[key] = [sessions[key] EXCEPT
                                               !.session_data = HookData(k),
                                               !.last_message_at = Now("hook", k.n)]
                 /\ (k.n >= 2 /\ faults' = faults) =>
                       /\ k.pc = "markPayment" =>
                             \A i \in 1..Len(payments) :
                                payments[i].payment_reference = k.reference =>
                                   /\ payments'[i].paid_at = Now("hook", k.n)
                                   /\ payments'[i].status = payments[i].status
                       /\ (k.pc = "patchSession" /\ sessions[k.sessionId] # NoRow
                             /\ sessions[k.sessionId].session_data = HookData(k)) =>
                                sessions'[k.sessionId] =
                                   [sessions[k.sessionId] EXCEPT
                                       !.last_message_at = Now("hook", k.n)]]_vars

\* two deliveries for PAY-1 naming session S1 have run to their end after the
\* booking was created, with no Success page opened: statuses and session_data
\* are as the first delivery left them, paid_at and last_message_at are the
\* second delivery's
C29_Witness ==
    /\ Quiescent
    /\ delivered = 2
    /\ faults = 0
    /\ hooks[1].n = 2
    /\ hooks[1].ops = <<"payments.select", "payments.update", "bookings.update",
                        "sessions.update">>
    /\ pages[1].pc = "idle"
    /\ payments[1].status = "success"
    /\ payments[1].paid_at = "hook-2"
    /\ Paid(bookings[1])
    /\ sessions["S1"].session_data = HookData(hooks[1])
    /\ sessions["S1"].last_message_at = "hook-2"

\* return date strictly after pickup date, both set
DatesInOrder(pickupDate, returnDate) ==
    \E p, r \in 1..31 :
        /\ IsoDate(p) = pickupDate
        /\ IsoDate(r) = returnDate
        /\ r > p

\* a text that is something after trimming
Filled(v) == v \notin {"", " "}

\* C30: currentStep is 1, 2 or 3; it rises from 1 to 2 only with both dates
\* set and the return date after the pickup date, from 2 to 3 only with full
\* name, phone number and email non-empty after trimming and a pickup
\* location chosen, and otherwise falls by one or the wizard is left; at step
\* 3, the only step at which a booking is posted, the dates are in order and
\* the four contact fields are filled in.
C30_StepThreeIsComplete ==
    /\ [](/\ wizard.currentStep \in {1, 2, 3}
          /\ wizard.currentStep = 3 =>
                /\ DatesInOrder(wizard.pickupDate, wizard.returnDate)
                /\ Filled(wizard.fullName) /\ Filled(wizard.phoneNumber)
                /\ Filled(wizard.email) /\ wizard.pickupLocation # "")
    /\ [][(wizard'.processingPayment /\ ~wizard.processingPayment) =>
             wizard.currentStep = 3]_vars
    /\ [][wizard'.currentStep # wizard.currentStep =>
             \/ /\ wizard.currentStep = 1 /\ wizard'.currentStep = 2
                /\ DatesInOrder(wizard.pickupDate, wizard.returnDate)
             \/ /\ wizard.currentStep = 2 /\ wizard'.currentStep = 3
                /\ Filled(wizard.fullName) /\ Filled(wizard.phoneNumber)
                /\ Filled(wizard.email) /\ wizard.pickupLocation # ""
             \/ wizard'.currentStep = wizard.currentStep - 1
             \/ wizard' = IdleWizard]_vars

\* the customer has picked 2024-01-01 to 2024-01-03, entered the contact
\* details, reached step 3 and pressed Submit
C30_Witness ==
    /\ wizard.currentStep = 3
    /\ wizard.processingPayment
    /\ wizard.pickupDate = "2024-01-01"
    /\ wizard.returnDate = "2024-01-03"
    /\ wizard.fullName = "Ama"
    /\ wizard.phoneNumber = "P1"
    /\ wizard.email = "ama@x.gh"
    /\ wizard.pickupLocation = "Airport"
    /\ wizard.bookingDetails = [days |-> 2, dailyRate |-> 200, totalAmount |-> 400]

====
